---- MODULE Spec2Model ----
(***************************************************************************)
(* A model of the rusty-git object database: the loose store, the pack     *)
(* index lookup, the pack file chain walk, the delta engine and the        *)
(* database facade with its rate-limited pack-set refresh.                 *)
(*                                                                         *)
(* Several specifications share one set of variables; each specification   *)
(* drives one component and leaves the other components' variables at      *)
(* their idle values.                                                      *)
(*   SpecIndex  IndexFile::find_offset on generated V1 / V2 indexes        *)
(*   SpecDelta  apply_delta on generated delta streams                     *)
(*   SpecPack   concurrent PackFile::read_object on generated pack files    *)
(*   SpecLoose  concurrent calls of the loose store                         *)
(*   SpecLooseSeq  calls of the loose store made one after the other        *)
(*   SpecLookup  try_read_object on two loaded packs of generated content   *)
(*   SpecDb     facade calls while objects/pack changes and time passes     *)
(*   SpecRefresh  concurrent calls of PackedObjectDatabase::refresh, entry   *)
(*              by entry, while objects/pack changes and time passes        *)
(*   SpecBuffer  calls of parse::Buffer over generated streams               *)
(*   SpecEintr   the same calls over readers that also raise errors          *)
(*   SpecLooseFail  SpecLooseSeq with writes to the object file that fail    *)
(*   SpecLocks   NThreads threads call PackedObjectDatabase::read_object,    *)
(*               lock by lock; SpecLocksFair adds that no thread that can    *)
(*               run is left waiting for ever                                *)
(*   SpecCache   one caller reads the objects of a generated pack, one       *)
(*               after the other and in any order, through one PackFile      *)
(*   SpecCommit  Commit::parse on generated commit texts, well-formed and    *)
(*               damaged                                                     *)
(*   SpecParse   IndexFile::parse on generated index files, well-formed and  *)
(*               damaged, and find_offset on those it accepts                *)
(*   SpecHeader  parse_object_header on generated header texts               *)
(*   SpecCommand  read_command on every command byte                          *)
(*   SpecVarint  read_pack_object_header and read_delta_offset on generated   *)
(*              varints of up to ten bytes                                   *)
(*   SpecChainFair  the loop of PackFile::find_chain, turn by turn, on       *)
(*              generated packs whose base references may form cycles        *)
(***************************************************************************)
EXTENDS Integers, Sequences, FiniteSets, TLC

VARIABLES
    fin,        \* input of the pure function being applied (a record)
    fout,       \* its result, or NoOut while it has not been applied
    pack,       \* the pack file being read: [desc, file, offset]
    cache,      \* PackFile::cache, a function from offsets to [header, bytes]
    poisoned,   \* PackFile::file (the mutex) is poisoned
    th,         \* per thread reading the pack: [pc, chain, header, base, res]
    dirs,       \* the directories under objects/ (names of two hex digits)
    files,      \* the files under them: a set of [path, content, mtime]
    now,        \* the clock
    lt,         \* per thread calling the object store: [pc, op, bytes, id, res]
    written,    \* the [bytes, id] for which write_object has returned Ok(id)
    nops,       \* the number of calls begun
    packdir,    \* objects/pack on disk: [exists, entries], entries a set of names
    packs,      \* PackedObjectDatabase::packs, the names of the loaded packs
    last_refresh, \* PackedObjectDatabase::last_refresh, NoTime for None
    added,      \* the [name, at] of the packs added to objects/pack, and when
    missed,     \* the [id, began, n] of the facade reads that did not return Ok
    began,      \* the time at which the last facade read began
    buf         \* a parse::Buffer over a reader: [buffer, pos, rest, res]

pureVars == <<fin, fout, buf>>
packVars == <<pack, cache, poisoned, th>>
storeVars == <<dirs, files, now, lt, written, nops>>
dbVars == <<packdir, packs, last_refresh, added, missed, began>>
vars == <<fin, fout, pack, cache, poisoned, th, dirs, files, now, lt, written, nops,
          packdir, packs, last_refresh, added, missed, began, buf>>

(***************************************************************************)
(* Bounds of the model.                                                    *)
(***************************************************************************)
\* width of an object id in bytes (ID_LEN is 20 in the program)
IdLen == 3
\* largest number of entries of a generated pack index
MaxEntries == 3
\* longest base object and longest inline insert of a generated delta
MaxDataLen == 2
\* largest number of commands of a generated delta
MaxCmds == 2
\* longest delta chain of a generated pack file
MaxDeltas == 2
\* number of threads reading a pack file, or calling the object store, at
\* the same time
NThreads == 2
\* largest number of calls to the object store in one behaviour
MaxOps == 3
\* last value of the clock
MaxTime == 2
\* longest buffer written to the object store
MaxLooseLen == 1
\* longest stream behind a parse::Buffer, and largest size asked of it
MaxStream == 4
\* most Interrupted errors the reader behind a parse::Buffer raises
MaxIntr == 2
\* most parent lines, author lines and further header lines of a generated
\* commit
MaxLines == 2
\* longest generated length text of an object header (the texts around the
\* largest usize come on top)
MaxText == 2

(***************************************************************************)
(* Program constants.                                                      *)
(***************************************************************************)
SHORT_ID_MIN_LEN == 2
LEVEL_ONE_COUNT == 256
LEVEL_ONE_LEN == LEVEL_ONE_COUNT * 4
HEADER_LEN == 8
\* size_of::<EntryV1>() and size_of::<EntryV2>() with ids of 20 bytes
ENTRY_LEN_V1 == 24
ENTRY_LEN_V2 == 20
TRAILER_LEN == 40
\* size_of::<U64<NetworkEndian>>()
LARGE_OFFSET_LEN == 8

\* the byte values the ids of the model are made of
IdBytes == {0, 1}
\* the byte values the object bodies of the model are made of
DataBytes == {7, 9}
\* ObjectKind: the kinds of an object, and the two that mark a delta entry
ConcreteKinds == {"Commit", "Tree", "Blob", "Tag"}
DeltaKinds == {"OfsDelta", "RefDelta"}

NoOut == [tag |-> "none"]
NoIn == [op |-> "none"]

Min(S) == CHOOSE x \in S : \A y \in S : x <= y
Max(S) == CHOOSE x \in S : \A y \in S : y <= x
\* F applied to the value of v: `let x = v;` followed by the code F stands for
With(v, F(_)) == CHOOSE r \in {F(x) : x \in {v}} : TRUE

SeqsOfLen(S, n) == [1..n -> S]

\* every full id, and every short id (its significant bytes, as_bytes())
Ids == SeqsOfLen(IdBytes, IdLen)
ShortIds == UNION {SeqsOfLen(IdBytes, n) : n \in SHORT_ID_MIN_LEN..IdLen}

(***************************************************************************)
(* Identifier: ordering and prefix test (object.rs).                       *)
(***************************************************************************)
\* <[u8] as Ord>::cmp: lexicographic, a proper prefix is Less
CmpBytes(a, b) ==
    LET n == IF Len(a) < Len(b) THEN Len(a) ELSE Len(b)
        diff == {i \in 1..n : a[i] # b[i]}
    IN  IF diff # {}
        THEN IF a[Min(diff)] < b[Min(diff)] THEN "Less" ELSE "Greater"
        ELSE IF Len(a) < Len(b) THEN "Less"
             ELSE IF Len(a) > Len(b) THEN "Greater" ELSE "Equal"

Reverse(o) == CASE o = "Less" -> "Greater" [] o = "Greater" -> "Less" [] OTHER -> "Equal"

\* ShortId::from(id): all ID_LEN bytes are significant
widen(id) == id

first_byte(short_id) == short_id[1]

cmp_id(short_id, id) == CmpBytes(short_id, id)

cmp_short(id, short_id) == Reverse(cmp_id(short_id, id))

starts_with(id, short_id) ==
    /\ Len(short_id) <= Len(id)
    /\ SubSeq(id, 1, Len(short_id)) = short_id

(***************************************************************************)
(* Pack index (packed/index.rs).  An index is the record                   *)
(*   version        "V1" or "V2"                                           *)
(*   level_one      the fan-out table, a function on 0..255                *)
(*   entries        the entry table, sorted by id; a V1 entry carries its  *)
(*                  offset                                                 *)
(*   small_offsets  V2: per entry, the 0x80000000 bit (large) and the low  *)
(*                  31 bits (low)                                          *)
(*   large_offsets  V2: the 64-bit offset table                            *)
(* Indexes count from 0 as in the program; a sequence is read at i + 1.    *)
(***************************************************************************)
FindErr(tag) == [tag |-> tag, offset |-> 0, id |-> <<>>]
FindOk(offset, id) == [tag |-> "Ok", offset |-> offset, id |-> id]

\* <[T]>::get(start..end)
SliceInRange(s, start, end) == start <= end /\ end <= Len(s)
SliceGet(s, start, end) == SubSeq(s, start + 1, end)

\* <[T]>::binary_search_by with the comparator |entry| entry.id().cmp_short(short_id)
RECURSIVE binary_search_by(_, _, _, _)
binary_search_by(entries, short_id, lo, hi) ==
    IF lo >= hi
    THEN [found |-> FALSE, index |-> lo]
    ELSE LET mid == lo + ((hi - lo) \div 2)
             c == cmp_short(entries[mid + 1].id, short_id)
         IN  CASE c = "Equal"   -> [found |-> TRUE, index |-> mid]
               [] c = "Less"    -> binary_search_by(entries, short_id, mid + 1, hi)
               [] c = "Greater" -> binary_search_by(entries, short_id, lo, mid)

\* the number of leading entries of entries[index..] that start with short_id,
\* counted up to two (matches.next() is called at most twice)
TakeWhileCount(entries, index, short_id) ==
    IF index < Len(entries) /\ starts_with(entries[index + 1].id, short_id)
    THEN IF index + 1 < Len(entries) /\ starts_with(entries[index + 2].id, short_id)
         THEN 2 ELSE 1
    ELSE 0

binary_search(entries, short_id) ==
    With(binary_search_by(entries, short_id, 0, Len(entries)), LAMBDA r :
        IF r.found
        THEN [tag |-> "Ok", index |-> r.index]
        ELSE With(TakeWhileCount(entries, r.index, short_id), LAMBDA n :
                CASE n = 0 -> [tag |-> "NotFound", index |-> 0]
                  [] n = 2 -> [tag |-> "Ambiguous", index |-> 0]
                  [] OTHER -> [tag |-> "Ok", index |-> r.index]))

\* the index into small_offsets of the entry found at `index` of its bucket
SmallOffsetIndexWrong(index_start, index) == index
SmallOffsetIndex(index_start, index) == index_start + index

\* IndexFile::offsets: LayoutVerified::new_slice(&data[mid..end]).unwrap()
\* gives the 64-bit table when the region between the 32-bit table and the
\* trailer is a whole number of entries, and panics otherwise
offsets(index) ==
    IF index.large_len % LARGE_OFFSET_LEN # 0
    THEN [tag |-> "Panic", small_offsets |-> <<>>, large_offsets |-> <<>>]
    ELSE [tag |-> "Ok", small_offsets |-> index.small_offsets,
          large_offsets |-> index.large_offsets]

find_offset(index, short_id) ==
    LET index_end == index.level_one[first_byte(short_id)]
        index_start == IF first_byte(short_id) = 0
                       THEN 0
                       ELSE index.level_one[first_byte(short_id) - 1]
    IN  IF ~SliceInRange(index.entries, index_start, index_end)
        THEN FindErr("ReadIndexFile")
        ELSE
        With(SliceGet(index.entries, index_start, index_end), LAMBDA bucket :
        With(binary_search(bucket, short_id), LAMBDA r :
            IF r.tag # "Ok"
            THEN FindErr(r.tag)
            ELSE
            LET entry == bucket[r.index + 1]
            IN  IF index.version = "V1"
                THEN FindOk(entry.offset, entry.id)
                ELSE
                With(offsets(index), LAMBDA tables :
                IF tables.tag = "Panic"
                THEN FindErr("Panic")
                ELSE
                With(tables.small_offsets[SmallOffsetIndex(index_start, r.index) + 1],
                     LAMBDA small_offset :
                    IF ~small_offset.large
                    THEN FindOk(small_offset.low, entry.id)
                    ELSE IF small_offset.low < Len(tables.large_offsets)
                         THEN FindOk(tables.large_offsets[small_offset.low + 1], entry.id)
                         ELSE FindErr("ReadIndexFile")))))

(***************************************************************************)
(* Well-formed index files, as a pack writer lays them out (spec 6.3, and  *)
(* the fixtures of tests::parse_v1 / parse_v2): `ents` is a set of         *)
(* [id, offset, large] with distinct ids; large says that the writer put   *)
(* the offset in the 64-bit table.                                         *)
(***************************************************************************)
\* the entries in ascending order of id (Id's derived Ord is CmpBytes)
RECURSIVE SortedEntries(_)
SortedEntries(ents) ==
    IF ents = {}
    THEN <<>>
    ELSE LET least == CHOOSE e \in ents :
                        \A f \in ents : CmpBytes(e.id, f.id) # "Greater"
         IN  <<least>> \o SortedEntries(ents \ {least})

LargeBefore(sorted, i) == Cardinality({j \in 1..(i - 1) : sorted[j].large})

MkIndex(version, ents) ==
    LET sorted == SortedEntries(ents)
        n == Len(sorted)
        larges == {j \in 1..n : sorted[j].large}
    IN  [ version |-> version,
          level_one |-> [b \in 0..(LEVEL_ONE_COUNT - 1) |->
                            Cardinality({e \in ents : e.id[1] <= b})],
          entries |-> [i \in 1..n |->
                          IF version = "V1"
                          THEN [id |-> sorted[i].id, offset |-> sorted[i].offset]
                          ELSE [id |-> sorted[i].id, offset |-> 0]],
          small_offsets |-> [i \in 1..n |->
                          IF version = "V1" THEN [large |-> FALSE, low |-> 0]
                          ELSE IF sorted[i].large
                               THEN [large |-> TRUE, low |-> LargeBefore(sorted, i)]
                               ELSE [large |-> FALSE, low |-> sorted[i].offset]],
          large_offsets |-> IF version = "V1" THEN <<>>
                            ELSE [k \in 1..Cardinality(larges) |->
                                    sorted[CHOOSE j \in larges :
                                              LargeBefore(sorted, j) = k - 1].offset],
          \* the bytes between the 32-bit offsets and the trailer
          large_len |-> IF version = "V1" THEN 0
                        ELSE LARGE_OFFSET_LEN * Cardinality(larges) ]

\* the number an id's bytes spell, and the pack offset the generator gives it
RECURSIVE IdCode(_)
IdCode(id) == IF id = <<>> THEN 0 ELSE 2 * IdCode(SubSeq(id, 1, Len(id) - 1)) + id[Len(id)]

PackHeaderLen == 12

GenEntry(version, id) ==
    [ id |-> id,
      offset |-> PackHeaderLen + IdCode(id),
      large |-> version = "V2" /\ id[Len(id)] = 1 ]

GenIndex(version, ids) == MkIndex(version, {GenEntry(version, id) : id \in ids})

(***************************************************************************)
(* Delta engine (packed/delta.rs).  The delta is the inflated delta        *)
(* stream, a sequence of bytes read front to back through parse::Buffer;   *)
(* pos counts the bytes already handed out.                                *)
(***************************************************************************)
MAX_VARINT_LEN == 10

Bit(byte, k) == (byte \div (2 ^ k)) % 2 = 1

\* intersects(byte, mask) for the mask with the single bit k set
intersects(byte, k) == Bit(byte, k)

\* the bit that marks a copy command: the literal 0b1000_000 has seven
\* digits, so it is bit 6
COPY_MASK_BIT == 6

DeltaErr(e) == [tag |-> "Err", err |-> e, kind |-> "", len |-> 0, bytes |-> <<>>]
DeltaPanic(e) == [tag |-> "Panic", err |-> e, kind |-> "", len |-> 0, bytes |-> <<>>]
DeltaOk(kind, len, bytes) ==
    [tag |-> "Ok", err |-> "", kind |-> kind, len |-> len, bytes |-> bytes]

\* Buffer::read_until(max, |slice| position of the first byte without the
\* continuation bit): the number of bytes accepted, 0 when max bytes hold no
\* such byte, -1 when the stream ends first
RECURSIVE ReadUntilVarint(_, _, _, _)
ReadUntilVarint(stream, pos, max, k) ==
    IF k = max THEN 0
    ELSE IF pos + k >= Len(stream) THEN -1
    ELSE IF stream[pos + k + 1] < 128 THEN k + 1
    ELSE ReadUntilVarint(stream, pos, max, k + 1)

\* len |= (byte & 0x7f) << shift, shift += 7, over the accepted bytes
RECURSIVE VarintLE(_)
VarintLE(bytes) ==
    IF bytes = <<>> THEN 0
    ELSE (bytes[1] % 128) + 128 * VarintLE(Tail(bytes))

read_delta_header_len(stream, pos, max) ==
    With(ReadUntilVarint(stream, pos, max, 0), LAMBDA k :
        CASE k = -1 -> [tag |-> "Err", err |-> "Parse(UnexpectedEof)", len |-> 0, pos |-> pos]
          [] k = 0  -> [tag |-> "Err", err |-> "InvalidHeader", len |-> 0, pos |-> pos]
          \* checked_shl fails from the shift of the eleventh byte on
          [] k > MAX_VARINT_LEN ->
                       [tag |-> "Err", err |-> "InvalidHeader", len |-> 0, pos |-> pos]
          [] OTHER  -> [tag |-> "Ok", err |-> "",
                        len |-> VarintLE(SubSeq(stream, pos + 1, pos + k)),
                        pos |-> pos + k])

HeaderErr(e) == [tag |-> "Err", err |-> e, base_len |-> 0, result_len |-> 0, pos |-> 0]

read_delta_header(stream) ==
    With(read_delta_header_len(stream, 0, MAX_VARINT_LEN * 2), LAMBDA b :
        IF b.tag # "Ok" THEN HeaderErr(b.err)
        ELSE With(read_delta_header_len(stream, b.pos, MAX_VARINT_LEN), LAMBDA r :
                IF r.tag # "Ok" THEN HeaderErr(r.err)
                ELSE [tag |-> "Ok", err |-> "", base_len |-> b.len,
                      result_len |-> r.len, pos |-> r.pos]))

\* the argument bytes of a copy command: for each of the bits `bits` of cmd
\* that is set, in order, one byte is read; the value is their little-endian
\* sum.  [ok, value, pos]
RECURSIVE ReadArgs(_, _, _, _, _)
ReadArgs(stream, pos, cmd, bits, shift) ==
    IF bits = <<>> THEN [ok |-> TRUE, value |-> 0, pos |-> pos]
    ELSE IF ~intersects(cmd, bits[1])
         THEN ReadArgs(stream, pos, cmd, Tail(bits), shift + 8)
         ELSE IF pos >= Len(stream)
              THEN [ok |-> FALSE, value |-> 0, pos |-> pos]
              ELSE With(ReadArgs(stream, pos + 1, cmd, Tail(bits), shift + 8),
                        LAMBDA rest :
                            [ok |-> rest.ok,
                             value |-> stream[pos + 1] * (2 ^ shift) + rest.value,
                             pos |-> rest.pos])

CmdErr(e, pos) == [tag |-> "Err", err |-> e, offset |-> 0, len |-> 0, pos |-> pos]

read_command(stream, pos) ==
    IF pos >= Len(stream)
    THEN [tag |-> "None", err |-> "", offset |-> 0, len |-> 0, pos |-> pos]
    ELSE
    LET cmd == stream[pos + 1]
    IN  IF intersects(cmd, COPY_MASK_BIT)
        THEN With(ReadArgs(stream, pos + 1, cmd, <<0, 1, 2, 3>>, 0), LAMBDA o :
             With(ReadArgs(stream, o.pos, cmd, <<4, 5, 6>>, 0), LAMBDA l :
                 IF ~o.ok \/ ~l.ok
                 THEN CmdErr("Parse(InvalidLength)", pos)
                 ELSE [tag |-> "CopyFromBase", err |-> "", offset |-> o.value,
                       len |-> IF l.value = 0 THEN 65536 ELSE l.value,
                       pos |-> l.pos]))
        ELSE IF cmd # 0
             THEN [tag |-> "CopyFromDelta", err |-> "", offset |-> 0, len |-> cmd,
                   pos |-> pos + 1]
             ELSE CmdErr("UnsupportedCommand", pos)

\* <[u8]>::copy_from_slice through BytesMut's DerefMut: the destination is
\* the slice of the bytes result holds, and it panics unless both lengths
\* are equal
CopyFromSliceOk(result, src) == Len(src) = Len(result)
CopyFromSlice(result, src) == src

LoopErr(tag, e) == [tag |-> tag, err |-> e, result |-> <<>>]

\* result.copy_from_slice(&src); delta.clear_buffer(); and the next turn of
\* the loop from the position `pos` of the delta
RECURSIVE DeltaLoop(_, _, _, _)
DeltaCopy(base, stream, pos, result, src) ==
    IF ~CopyFromSliceOk(result, src)
    THEN LoopErr("Panic", "copy_from_slice")
    ELSE DeltaLoop(base, stream, pos, CopyFromSlice(result, src))

DeltaLoop(base, stream, pos, result) ==
    With(read_command(stream, pos), LAMBDA cmd :
        CASE cmd.tag = "None" -> [tag |-> "Ok", err |-> "", result |-> result]
          [] cmd.tag = "Err"  -> LoopErr("Err", cmd.err)
          [] cmd.tag = "CopyFromBase" ->
                IF cmd.offset > Len(base) \/ cmd.len > Len(base) - cmd.offset
                THEN LoopErr("Err", "InvalidCommand")
                ELSE DeltaCopy(base, stream, cmd.pos, result,
                               SubSeq(base, cmd.offset + 1, cmd.offset + cmd.len))
          [] cmd.tag = "CopyFromDelta" ->
                IF cmd.pos + cmd.len > Len(stream)
                THEN LoopErr("Err", "Parse(InvalidLength)")
                ELSE DeltaCopy(base, stream, cmd.pos + cmd.len, result,
                               SubSeq(stream, cmd.pos + 1, cmd.pos + cmd.len)))

apply_delta(kind, base, delta) ==
    With(read_delta_header(delta), LAMBDA header :
        IF header.tag # "Ok" THEN DeltaErr(header.err)
        ELSE IF header.base_len # Len(base) THEN DeltaErr("BaseLengthMismatch")
        ELSE With(DeltaLoop(base, delta, header.pos, <<>>), LAMBDA r :
                CASE r.tag = "Err"   -> DeltaErr(r.err)
                  [] r.tag = "Panic" -> DeltaPanic(r.err)
                  [] OTHER ->
                        IF header.result_len # Len(r.result)
                        THEN DeltaErr("ResultLengthMismatch")
                        ELSE DeltaOk(kind, header.result_len, r.result)))

(***************************************************************************)
(* Delta streams as a pack writer encodes them (spec 4.9): a command is    *)
(* [copy |-> TRUE, offset, size] or [copy |-> FALSE, bytes].               *)
(***************************************************************************)
RECURSIVE EncodeVarint(_)
EncodeVarint(n) ==
    IF n < 128 THEN <<n>> ELSE <<128 + (n % 128)>> \o EncodeVarint(n \div 128)

CopyCmd(offset, size) == [copy |-> TRUE, offset |-> offset, size |-> size, bytes |-> <<>>]
InsertCmd(bytes) == [copy |-> FALSE, offset |-> 0, size |-> Len(bytes), bytes |-> bytes]

\* offsets and sizes of the model fit in one byte
EncodeCmd(c) ==
    IF c.copy
    THEN <<128 + (IF c.offset # 0 THEN 1 ELSE 0) + 16>>
            \o (IF c.offset # 0 THEN <<c.offset>> ELSE <<>>) \o <<c.size>>
    ELSE <<c.size>> \o c.bytes

RECURSIVE EncodeCmds(_)
EncodeCmds(cmds) ==
    IF cmds = <<>> THEN <<>> ELSE EncodeCmd(cmds[1]) \o EncodeCmds(Tail(cmds))

\* the bytes a command names, and the result a command list describes
CmdSlice(base, c) ==
    IF c.copy THEN SubSeq(base, c.offset + 1, c.offset + c.size) ELSE c.bytes

RECURSIVE CmdsResult(_, _)
CmdsResult(base, cmds) ==
    IF cmds = <<>> THEN <<>> ELSE CmdSlice(base, cmds[1]) \o CmdsResult(base, Tail(cmds))

EncodeDelta(base, cmds) ==
    EncodeVarint(Len(base)) \o EncodeVarint(Len(CmdsResult(base, cmds))) \o EncodeCmds(cmds)

DataSeqs(lo, hi) == UNION {SeqsOfLen(DataBytes, n) : n \in lo..hi}

CmdsOn(base) ==
    {CopyCmd(o, n) : <<o, n>> \in
        {x \in (0..Len(base)) \X (1..MaxDataLen) : x[1] + x[2] <= Len(base)}}
    \cup {InsertCmd(b) : b \in DataSeqs(1, MaxDataLen)}

CmdLists(base) == UNION {SeqsOfLen(CmdsOn(base), n) : n \in 0..MaxCmds}

(***************************************************************************)
(* zlib.  The streams flate2 writes and reads are modelled as a framing    *)
(* that keeps what the program relies on: inflating a whole stream gives   *)
(* back the deflated bytes, and a truncated or altered stream is an error. *)
(***************************************************************************)
RECURSIVE SumBytes(_)
SumBytes(b) == IF b = <<>> THEN 0 ELSE (b[1] + SumBytes(Tail(b))) % 256

Deflate(b) == <<120, Len(b)>> \o b \o <<SumBytes(b)>>

\* inflate the stream that starts at the front of s: [ok, data, used]
Inflate(s) ==
    IF Len(s) >= 3 /\ s[1] = 120 /\ Len(s) >= s[2] + 3
    THEN With(SubSeq(s, 3, s[2] + 2), LAMBDA data :
            IF s[s[2] + 3] = SumBytes(data)
            THEN [ok |-> TRUE, data |-> data, used |-> s[2] + 3]
            ELSE [ok |-> FALSE, data |-> <<>>, used |-> 0])
    ELSE [ok |-> FALSE, data |-> <<>>, used |-> 0]

(***************************************************************************)
(* Pack files as a pack writer lays them out (spec 4.7): a 12 byte header, *)
(* the entries, the trailer id.  An entry is the type and size header, the *)
(* base reference of a delta, and the deflated body or delta stream.       *)
(***************************************************************************)
KindCode(kind) ==
    CASE kind = "Commit" -> 1 [] kind = "Tree" -> 2 [] kind = "Blob" -> 3
      [] kind = "Tag" -> 4 [] kind = "OfsDelta" -> 6 [] kind = "RefDelta" -> 7

EncodeObjHeader(kind, len) ==
    IF len < 16 THEN <<KindCode(kind) * 16 + len>>
    ELSE <<128 + KindCode(kind) * 16 + (len % 16)>> \o EncodeVarint(len \div 16)

\* the offset encoding of git: big-endian groups of seven bits, with the
\* bias of one on every continuation
RECURSIVE EncodeOfsMore(_, _)
EncodeOfsMore(d, acc) ==
    IF d = 0 THEN acc
    ELSE EncodeOfsMore((d - 1) \div 128, <<128 + ((d - 1) % 128)>> \o acc)

EncodeOfs(d) == EncodeOfsMore(d \div 128, <<d % 128>>)

\* the id of the i-th object of a generated pack
ObjId(i) == [k \in 1..IdLen |-> ((i + 1) \div (2 ^ (IdLen - k))) % 2]

\* the commands of a generated delta over the base body
StyleCmds(style, body) ==
    LET whole == IF body = <<>> THEN <<>> ELSE <<CopyCmd(0, Len(body))>>
    IN  CASE style = "empty"  -> <<>>
          [] style = "copy"   -> whole
          [] style = "append" -> whole \o <<InsertCmd(<<9>>)>>
          [] style = "insert" -> <<InsertCmd(<<9>>)>>

\* a generated pack is described by the kind and body of its one concrete
\* object and the deltas stacked on it: desc.deltas[i] = [link, style]
RECURSIVE TrueBody(_, _)
TrueBody(desc, i) ==
    IF i = 0 THEN desc.body
    ELSE CmdsResult(TrueBody(desc, i - 1),
                    StyleCmds(desc.deltas[i].style, TrueBody(desc, i - 1)))

RECURSIVE EntryOffset(_, _)
PackEntry(desc, i) ==
    IF i = 0
    THEN EncodeObjHeader(desc.kind, Len(desc.body)) \o Deflate(desc.body)
    ELSE LET below  == TrueBody(desc, i - 1)
             stream == EncodeDelta(below, StyleCmds(desc.deltas[i].style, below))
         IN  IF desc.deltas[i].link = "OfsDelta"
             THEN EncodeObjHeader("OfsDelta", Len(stream))
                    \o EncodeOfs(EntryOffset(desc, i) - EntryOffset(desc, i - 1))
                    \o Deflate(stream)
             ELSE EncodeObjHeader("RefDelta", Len(stream))
                    \o ObjId(i - 1)
                    \o Deflate(stream)

EntryOffset(desc, i) ==
    IF i = 0 THEN PackHeaderLen
    ELSE EntryOffset(desc, i - 1) + Len(PackEntry(desc, i - 1))

RECURSIVE PackEntries(_, _)
PackEntries(desc, i) ==
    IF i > Len(desc.deltas) THEN <<>>
    ELSE PackEntry(desc, i) \o PackEntries(desc, i + 1)

\* "PACK", version 2, the entry count
PackFileHeaderBytes(count) == <<80, 65, 67, 75, 0, 0, 0, 2, 0, 0, 0, count>>

PackBytes(desc) ==
    PackFileHeaderBytes(Len(desc.deltas) + 1) \o PackEntries(desc, 0) \o ObjId(7)

PackIndex(desc) ==
    MkIndex("V2", { [id |-> ObjId(i), offset |-> EntryOffset(desc, i), large |-> FALSE] :
                        i \in 0..Len(desc.deltas) })

DeltaStyles == {"empty", "copy", "append", "insert"}

PackDesc(k, b, d) == [kind |-> k, body |-> b, deltas |-> d]

(***************************************************************************)
(* Pack file reads (packed/pack.rs).  file is the byte content of the pack *)
(* file; a position is the number of bytes in front of it.  The cache is a *)
(* function from the offsets it holds to [header, bytes].                  *)
(***************************************************************************)
MAX_PACKED_LEN == 10
MAX_DELTA_OFFSET_LEN == 10

ObjectHeader(kind, len) == [kind |-> kind, len |-> len]

ReadErr(e) == [tag |-> "Err", err |-> e, kind |-> "", len |-> 0, value |-> 0,
               id |-> <<>>, pos |-> 0]

\* u64 and, on the 64-bit targets the tests of pack.rs are written for,
\* usize: a value is the sequence of its U64Bytes bytes, the least
\* significant byte first
U64Bytes == 8
U64Bits == U64Bytes * 8

\* u64::from(byte), usize::from(byte)
FromByte(byte) == [i \in 1..U64Bytes |-> IF i = 1 THEN byte ELSE 0]

ByteOf(x, i) == IF i \in 1..U64Bytes THEN x[i] ELSE 0

\* x << k for k < U64Bits: the bits shifted out at the top are lost
Shl(x, k) ==
    [i \in 1..U64Bytes |->
        ((ByteOf(x, i - (k \div 8)) * (2 ^ (k % 8))) % 256)
            + (ByteOf(x, i - (k \div 8) - 1) \div (2 ^ (8 - (k % 8))))]

RECURSIVE AndBits(_, _, _)
AndBits(a, b, k) ==
    IF k = 8 THEN 0
    ELSE (a % 2) * (b % 2) + 2 * AndBits(a \div 2, b \div 2, k + 1)

\* x | y
BitOr(x, y) == [i \in 1..U64Bytes |-> x[i] + y[i] - AndBits(x[i], y[i], 0)]

RECURSIVE AddFrom(_, _, _, _)
AddFrom(x, y, i, carry) ==
    IF i > U64Bytes THEN <<>>
    ELSE <<(x[i] + y[i] + carry) % 256>>
            \o AddFrom(x, y, i + 1, (x[i] + y[i] + carry) \div 256)

\* x + y.  Where the model uses it the low seven bits of x are zero and y is
\* below 128, so the sum never overflows
AddU64(x, y) == AddFrom(x, y, 1, 0)

RECURSIVE NatFrom(_, _)
NatFrom(x, i) == IF i > U64Bytes THEN 0 ELSE x[i] + 256 * NatFrom(x, i + 1)

\* the number a u64 of the model stands for (the offsets and lengths of the
\* generated packs are small)
U64ToNat(x) == NatFrom(x, 1)

RECURSIVE PackLenLoop(_, _, _)
\* while parser.remaining() != 0 { len |= usize::from(byte & 0x7f)
\* .checked_shl(shift).ok_or(..)?; shift += 7 }: checked_shl is None only for
\* a shift of U64Bits or more
PackLenLoop(bytes, len, shift) ==
    IF bytes = <<>> THEN [ok |-> TRUE, bits |-> len]
    ELSE IF shift >= U64Bits THEN [ok |-> FALSE, bits |-> len]
    ELSE PackLenLoop(Tail(bytes), BitOr(len, Shl(FromByte(bytes[1] % 128), shift)),
                     shift + 7)

\* read_pack_object_header with the length as the usize it is: [tag, err,
\* kind, bits, pos]
read_pack_object_header_usize(file, at) ==
    With(ReadUntilVarint(file, at, MAX_PACKED_LEN, 0), LAMBDA k :
        CASE k = -1 -> ReadErr("Parse(UnexpectedEof)")
          [] k = 0  -> ReadErr("Other(invalid object size)")
          [] OTHER  ->
                With((file[at + 1] % 128) \div 16, LAMBDA code :
                    IF code \notin {1, 2, 3, 4, 6, 7} THEN ReadErr("UnknownType")
                    ELSE With(PackLenLoop(SubSeq(file, at + 2, at + k),
                                          FromByte(file[at + 1] % 16), 4), LAMBDA l :
                        IF ~l.ok THEN ReadErr("Other(invalid object size)")
                        ELSE [tag |-> "Ok", err |-> "",
                              kind |-> CHOOSE kind \in ConcreteKinds \cup DeltaKinds :
                                           KindCode(kind) = code,
                              bits |-> l.bits, pos |-> at + k])))

read_pack_object_header(file, at) ==
    With(read_pack_object_header_usize(file, at), LAMBDA h :
        IF h.tag # "Ok" THEN h
        ELSE [tag |-> "Ok", err |-> "", kind |-> h.kind, len |-> U64ToNat(h.bits),
              value |-> 0, id |-> <<>>, pos |-> h.pos])

RECURSIVE VarintBE(_, _)
\* offset <<= 7; offset += u64::from(byte & 0x7f), over the accepted bytes
VarintBE(bytes, offset) ==
    IF bytes = <<>> THEN offset
    ELSE VarintBE(Tail(bytes), AddU64(Shl(offset, 7), FromByte(bytes[1] % 128)))

\* read_delta_offset with the offset as the u64 it is: [tag, err, bits, pos]
read_delta_offset_u64(file, at) ==
    With(ReadUntilVarint(file, at, MAX_DELTA_OFFSET_LEN, 0), LAMBDA k :
        CASE k = -1 -> ReadErr("Parse(UnexpectedEof)")
          [] k = 0  -> ReadErr("Other(invalid delta offset)")
          [] OTHER  -> [tag |-> "Ok", err |-> "",
                        bits |-> VarintBE(SubSeq(file, at + 1, at + k), FromByte(0)),
                        pos |-> at + k])

read_delta_offset(file, at) ==
    With(read_delta_offset_u64(file, at), LAMBDA d :
        IF d.tag # "Ok" THEN d
        ELSE [tag |-> "Ok", err |-> "", kind |-> "", len |-> 0,
              value |-> U64ToNat(d.bits), id |-> <<>>, pos |-> d.pos])

read_delta_reference(file, at) ==
    IF at + IdLen > Len(file) THEN ReadErr("Parse(InvalidLength)")
    ELSE [tag |-> "Ok", err |-> "", kind |-> "", len |-> 0, value |-> 0,
          id |-> SubSeq(file, at + 1, at + IdLen), pos |-> at + IdLen]

ChainErr(e, c) ==
    [tag |-> "Err", err |-> e, chain |-> <<>>, header |-> ObjectHeader("", 0),
     base |-> <<>>, cache |-> c]

ChainEntry(key, offset, header) == [key |-> key, offset |-> offset, header |-> header]

\* a value of the cache, (ObjectHeader, Bytes): by tells the buffers of equal
\* content apart, it is the thread whose apply_delta allocated the bytes, and
\* 0 for the bytes find_chain took from the file
CacheEntry(header, bytes, by) == [header |-> header, bytes |-> bytes, by |-> by]

\* the walk goes on from offset with the chain collected so far
ChainMore(c, offset, chain) ==
    [tag |-> "More", err |-> "", chain |-> chain, header |-> ObjectHeader("", 0),
     base |-> <<>>, cache |-> c, offset |-> offset]

\* chain.push(ChainEntry { key, offset, header }), the check for a loop, and
\* offset = base_offset for the next turn of the loop
find_chain_next(c, offset, chain, header, base_offset, pos) ==
    IF base_offset = offset THEN ChainErr("Other(loop in deltas)", c)
    ELSE ChainMore(c, base_offset, Append(chain, ChainEntry(offset, pos, header)))

\* the base offset of the delta entry with header h at offset: [tag, err,
\* value, pos]
read_base_offset(file, index, offset, h) ==
    IF h.kind = "OfsDelta"
    THEN With(read_delta_offset(file, h.pos), LAMBDA d :
            IF d.tag # "Ok" THEN d
            ELSE IF d.value > offset THEN ReadErr("Other(invalid delta offset)")
            ELSE [d EXCEPT !.value = offset - d.value])
    ELSE With(read_delta_reference(file, h.pos), LAMBDA r :
            IF r.tag # "Ok" THEN r
            ELSE With(find_offset(index, widen(r.id)), LAMBDA f :
                    IF f.tag # "Ok" THEN ReadErr("FindIndexOffset")
                    ELSE [r EXCEPT !.value = f.offset]))

\* one turn of the loop of find_chain: the return of find_chain, or the
\* offset and the chain of the next turn
find_chain_turn(file, index, c, offset, chain) ==
    IF offset \in DOMAIN c
    THEN [tag |-> "Ok", err |-> "", chain |-> chain, header |-> c[offset].header,
          base |-> c[offset].bytes, cache |-> c, by |-> c[offset].by]
    ELSE
    With(read_pack_object_header(file, offset), LAMBDA h :
        IF h.tag # "Ok" THEN ChainErr(h.err, c)
        ELSE IF h.kind \in DeltaKinds
        THEN With(read_base_offset(file, index, offset, h), LAMBDA b :
                IF b.tag # "Ok" THEN ChainErr(b.err, c)
                ELSE find_chain_next(c, offset, chain,
                                     ObjectHeader(h.kind, h.len), b.value, b.pos))
        \* read_exact(header.len), take_buffer: the header.len bytes of the
        \* file that follow the header
        ELSE IF h.pos + h.len > Len(file) THEN ChainErr("Parse(InvalidLength)", c)
        ELSE With(CacheEntry(ObjectHeader(h.kind, h.len),
                             SubSeq(file, h.pos + 1, h.pos + h.len), 0), LAMBDA e :
                [tag |-> "Ok", err |-> "", chain |-> chain, header |-> e.header,
                 base |-> e.bytes, cache |-> (offset :> e) @@ c, by |-> 0]))

RECURSIVE find_chain_loop(_, _, _, _, _)
\* `loop { ... }`: turn after turn until one of them returns
find_chain_loop(file, index, c, offset, chain) ==
    With(find_chain_turn(file, index, c, offset, chain), LAMBDA r :
        IF r.tag = "More" THEN find_chain_loop(file, index, r.cache, r.offset, r.chain)
        ELSE r)

find_chain(file, index, c, offset) == find_chain_loop(file, index, c, offset, <<>>)

\* Buffer::decompress_exact(len): a buffer over the inflated bytes of the
\* zlib stream at the file position, len of them
decompress_exact(file, at, len) ==
    With(Inflate(SubSeq(file, at + 1, Len(file))), LAMBDA z :
        IF z.ok /\ len <= Len(z.data)
        THEN [ok |-> TRUE, stream |-> SubSeq(z.data, 1, len)]
        ELSE [ok |-> FALSE, stream |-> <<>>])

ApplyErr(tag, e, c) ==
    [tag |-> tag, err |-> e, header |-> ObjectHeader("", 0), bytes |-> <<>>, cache |-> c]

\* PackFile::apply_delta, called by thread t
pack_apply_delta(file, c, base, delta, t) ==
    With(decompress_exact(file, delta.offset, delta.header.len), LAMBDA d :
        IF ~d.ok THEN ApplyErr("Err", "ParseDeltaError(Parse(Io))", c)
        ELSE With(apply_delta(delta.header.kind, base, d.stream), LAMBDA result :
            CASE result.tag = "Panic" -> ApplyErr("Panic", result.err, c)
              [] result.tag = "Err"   -> ApplyErr("Err", "ParseDeltaError", c)
              [] OTHER ->
                    With(CacheEntry(ObjectHeader(result.kind, result.len),
                                    result.bytes, t), LAMBDA mine :
                        \* cache.insert(key, result.clone()).unwrap_or(result):
                        \* DashMap::insert puts the new value at the key and
                        \* returns the value that was there
                        With(IF delta.key \in DOMAIN c THEN c[delta.key] ELSE mine,
                             LAMBDA given :
                                [tag |-> "Ok", err |-> "", header |-> given.header,
                                 bytes |-> given.bytes, by |-> given.by,
                                 cache |-> (delta.key :> mine) @@ c]))))

(***************************************************************************)
(* Loose store (database/loose.rs).  A file is [path, content, mtime]; a   *)
(* path is <<dir, file>>, the two parts of the hex form of the id.         *)
(***************************************************************************)
Threads == 1..NThreads

\* Id::from_hash.  SHA-1 is modelled as an injective map from the buffers of
\* the model to ids: the buffer, read as digits after a leading one, written
\* out in IdLen bytes.
Rank(b) == Cardinality({x \in DataBytes : x < b})

RECURSIVE BufCode(_)
BufCode(bytes) ==
    IF bytes = <<>> THEN 1
    ELSE BufCode(SubSeq(bytes, 1, Len(bytes) - 1)) * Cardinality(DataBytes)
            + Rank(bytes[Len(bytes)])

from_hash(bytes) ==
    [k \in 1..IdLen |-> (BufCode(bytes) \div (Cardinality(IdBytes) ^ (IdLen - k)))
                            % Cardinality(IdBytes)]

\* Id::to_hex: two hex digits for every byte
RECURSIVE to_hex(_)
to_hex(id) ==
    IF id = <<>> THEN <<>>
    ELSE <<id[1] \div 16, id[1] % 16>> \o to_hex(Tail(id))

\* a mutant of object_path_parts: the file name loses its first two digits
object_path_parts_wrong(hex) == <<SubSeq(hex, 1, 2), SubSeq(hex, 5, Len(hex))>>
\* hex.split_at(2)
object_path_parts(hex) == <<SubSeq(hex, 1, 2), SubSeq(hex, 3, Len(hex))>>

LoosePath(id) == object_path_parts(to_hex(id))

FileExists(fs, path) == \E f \in fs : f.path = path
FileAt(fs, path) == CHOOSE f \in fs : f.path = path
PutFile(fs, path, content, mtime) ==
    {f \in fs : f.path # path} \cup {[path |-> path, content |-> content, mtime |-> mtime]}

\* a mutant of TouchFile: the file is opened anew and loses its content
TouchFileTruncating(fs, path, mtime) == PutFile(fs, path, <<>>, mtime)
\* set_file_mtime(path, ..): the content stays
TouchFile(fs, path, mtime) == PutFile(fs, path, FileAt(fs, path).content, mtime)

LooseBufs == DataSeqs(0, MaxLooseLen)

\* the ids asked for: those of the buffers, and one that names no buffer
ZeroId == [k \in 1..IdLen |-> 0]
ReadIds == {from_hash(bytes) : bytes \in LooseBufs} \cup {ZeroId}

IdleCaller == [pc |-> "idle", op |-> "none", bytes |-> <<>>, id |-> <<>>, res |-> NoOut]

StoreIdle ==
    /\ dirs = {}
    /\ files = {}
    /\ now = 0
    /\ lt = [t \in Threads |-> IdleCaller]
    /\ written = {}
    /\ nops = 0

\* PackedObjectDatabase::open: no pack is loaded, last_refresh is None
NoTime == 0 - 1
NoPackDir == [exists |-> FALSE, entries |-> {}]

DbOpen ==
    /\ packs = {}
    /\ last_refresh = NoTime
    /\ added = {}
    /\ missed = {}
    /\ began = 0

DbIdle ==
    /\ packdir = NoPackDir
    /\ DbOpen

LooseOk(id, data) == [tag |-> "Ok", id |-> id, data |-> data]
LooseErr(e) == [tag |-> "Err", err |-> e]
\* Ok(id) of write_object, through the already-exists branch or not
WriteOk(id, existed) == [tag |-> "Ok", id |-> id, data |-> <<>>, existed |-> existed]

\* write_object, up to create_dir: the id and the path are computed and the
\* directory is made, or exists already
WriteMkdir(t, bytes) ==
    /\ lt[t].pc = "idle"
    /\ nops < MaxOps
    /\ nops' = nops + 1
    /\ dirs' = dirs \cup {LoosePath(from_hash(bytes))[1]}
    /\ lt' = [lt EXCEPT ![t] = [pc |-> "open", op |-> "write", bytes |-> bytes,
                                id |-> from_hash(bytes), res |-> NoOut]]
    /\ UNCHANGED <<files, now, written, pureVars, packVars, dbVars>>

\* OpenOptions::new().create_new(true).write(true).open(&path): the file is
\* made, empty, or it exists: then set_file_mtime, whose failure is ignored,
\* and return Ok(id)
WriteOpen(t) ==
    /\ lt[t].pc = "open"
    /\ IF FileExists(files, LoosePath(lt[t].id))
       THEN /\ \E mtime \in {FileAt(files, LoosePath(lt[t].id)).mtime, now} :
                 files' = TouchFile(files, LoosePath(lt[t].id), mtime)
            /\ lt' = [lt EXCEPT ![t].pc = "idle", ![t].res = WriteOk(lt[t].id, TRUE)]
            /\ written' = written \cup {[bytes |-> lt[t].bytes, id |-> lt[t].id]}
       ELSE /\ files' = PutFile(files, LoosePath(lt[t].id), <<>>, now)
            /\ lt' = [lt EXCEPT ![t].pc = "write"]
            /\ UNCHANGED written
    /\ UNCHANGED <<dirs, now, nops, pureVars, packVars, dbVars>>

\* encoder.write_all(bytes) and encoder.finish(): the zlib stream reaches the
\* file in one or more writes; after the last one write_object returns Ok(id)
WriteData(t) ==
    /\ lt[t].pc = "write"
    /\ \E n \in (Len(FileAt(files, LoosePath(lt[t].id)).content) + 1)
                    ..Len(Deflate(lt[t].bytes)) :
          /\ files' = PutFile(files, LoosePath(lt[t].id),
                              SubSeq(Deflate(lt[t].bytes), 1, n), now)
          /\ IF n = Len(Deflate(lt[t].bytes))
             THEN /\ lt' = [lt EXCEPT ![t].pc = "idle",
                                      ![t].res = WriteOk(lt[t].id, FALSE)]
                  /\ written' = written \cup {[bytes |-> lt[t].bytes, id |-> lt[t].id]}
             ELSE UNCHANGED <<lt, written>>
    /\ UNCHANGED <<dirs, now, nops, pureVars, packVars, dbVars>>

\* encoder.write_all(bytes)? or encoder.finish()? returns an error: the file
\* is closed as it is and write_object returns the error
WriteFail(t) ==
    /\ lt[t].pc = "write"
    /\ lt' = [lt EXCEPT ![t].pc = "idle", ![t].res = LooseErr("Io")]
    /\ UNCHANGED <<dirs, files, now, written, nops, pureVars, packVars, dbVars>>

\* read_object: File::open, NotFound when there is no file at the path
ReadOpen(t, id) ==
    /\ lt[t].pc = "idle"
    /\ nops < MaxOps
    /\ nops' = nops + 1
    /\ lt' = [lt EXCEPT ![t] =
                IF FileExists(files, LoosePath(id))
                THEN [pc |-> "read", op |-> "read", bytes |-> <<>>, id |-> id,
                      res |-> NoOut]
                ELSE [pc |-> "idle", op |-> "read", bytes |-> <<>>, id |-> id,
                      res |-> LooseErr("NotFound")]]
    /\ UNCHANGED <<dirs, files, now, written, pureVars, packVars, dbVars>>

\* the caller reads the ObjectReader to its end (ZlibDecoder over the file)
ReadData(t) ==
    /\ lt[t].pc = "read"
    /\ \E z \in {Inflate(FileAt(files, LoosePath(lt[t].id)).content)} :
          lt' = [lt EXCEPT ![t].pc = "idle",
                           ![t].res = IF z.ok THEN LooseOk(lt[t].id, z.data)
                                      ELSE LooseErr("Io")]
    /\ UNCHANGED <<dirs, files, now, written, nops, pureVars, packVars, dbVars>>

Tick ==
    /\ now < MaxTime
    /\ now' = now + 1
    /\ UNCHANGED <<dirs, files, lt, written, nops, pureVars, packVars, dbVars>>

LooseStep(t) ==
    \/ \E bytes \in LooseBufs : WriteMkdir(t, bytes)
    \/ WriteOpen(t)
    \/ WriteData(t)
    \/ \E id \in ReadIds : ReadOpen(t, id)
    \/ ReadData(t)

NoPack == [desc |-> NoIn, file |-> <<>>, offset |-> 0]

IdleThread ==
    [pc |-> "idle", chain |-> <<>>, header |-> ObjectHeader("", 0), base |-> <<>>,
     by |-> 0, res |-> NoOut]

PackIdle ==
    /\ pack = NoPack
    /\ cache = <<>>
    /\ poisoned = FALSE
    /\ th = [t \in Threads |-> IdleThread]

\* Buffer::new: nothing buffered, nothing read
NewBuffer(stream) ==
    [buffer |-> <<>>, pos |-> 0, rest |-> stream, res |-> NoOut,
     intr |-> 0, io |-> FALSE]

PureIdle ==
    /\ fin = NoIn
    /\ fout = NoOut
    /\ buf = NewBuffer(<<>>)

InitLoose ==
    /\ StoreIdle
    /\ PureIdle
    /\ PackIdle
    /\ DbIdle

\* SpecLoose: the threads call the loose store at the same time
NextLoose == (\E t \in Threads : LooseStep(t)) \/ Tick
SpecLoose == InitLoose /\ [][NextLoose]_vars

\* SpecLooseSeq: one thread calls the loose store, one call after the other,
\* while time passes
NextLooseSeq == LooseStep(1) \/ Tick
SpecLooseSeq == InitLoose /\ [][NextLooseSeq]_vars

\* SpecLooseFail: one thread calls the loose store, one call after the other,
\* and a write to the object file may fail
NextLooseFail == LooseStep(1) \/ WriteFail(1) \/ Tick
SpecLooseFail == InitLoose /\ [][NextLooseFail]_vars

(***************************************************************************)
(* Packed database (database/packed.rs) and facade (database.rs).  A pack  *)
(* is known by the name of its .idx file; ids gives, for every name, the   *)
(* ids its index holds.                                                    *)
(***************************************************************************)
MAX_REFRESH_INTERVAL == 2

DbOk(src, id) == [tag |-> "Ok", src |-> src, id |-> id]
DbErr(e) == [tag |-> "Err", err |-> e]
\* Err(Error::ObjectNotFound(_)), the pattern of the packed database
IsNotFound(r) == r.tag = "Err" /\ r.err = "ObjectNotFound"

\* pack.value().index.find_offset(short_id)
PackFind(ids, p, short_id) == find_offset(GenIndex("V2", ids[p]), short_id)

\* the match of try_read_object on the result of find_offset: Ok reads the
\* object at the offset, any error but ObjectNotFound is returned
PackHit(p, found) ==
    IF found.tag = "Ok" THEN DbOk(p, found.id)
    ELSE IF found.tag = "NotFound" THEN DbErr("ObjectNotFound")
    ELSE DbErr(found.tag)

\* try_read_object: self.packs is iterated in the order of the hash map, which
\* is any order, and the first pack whose index does not answer ObjectNotFound
\* decides
TryHits(ids, ps, short_id) ==
    {h \in {PackHit(p, PackFind(ids, p, short_id)) : p \in ps} : ~IsNotFound(h)}

try_read_object(ids, ps, short_id) ==
    With(TryHits(ids, ps, short_id),
         LAMBDA hits : IF hits = {} THEN {DbErr("ObjectNotFound")} ELSE hits)

\* the entries of objects/pack: the .idx files that PackFile::open accepts,
\* one it rejects, and a file with another extension
GoodNames == {"a.idx", "b.idx"}
DirNames == GoodNames \cup {"bad.idx", "a.keep"}
IsIdx(n) == n # "a.keep"
Opens(n) == n \in GoodNames

\* the ids held by the packs of the facade model
PackIds == [n \in GoodNames |-> IF n = "a.idx" THEN {ZeroId, from_hash(<<>>)}
                                ELSE {ZeroId}]

\* a variant that still holds the gate closed when exactly the interval has
\* elapsed
WithinIntervalLate(last, t) == last # NoTime /\ t - last <= MAX_REFRESH_INTERVAL

\* Some(last_refresh) if last_refresh.elapsed() < MAX_REFRESH_INTERVAL, at
\* time t
WithinInterval(last, t) == last # NoTime /\ t - last < MAX_REFRESH_INTERVAL

RefreshOutcome(res, ps, last) == [res |-> res, packs |-> ps, last_refresh |-> last]

\* refresh: Ok(false) inside the interval; else read_dir and, for every .idx
\* entry not yet loaded, PackFile::open; an error ends the walk, with the
\* packs inserted before it kept and last_refresh left as it was
refresh ==
    IF WithinInterval(last_refresh, now)
    THEN {RefreshOutcome("false", packs, last_refresh)}
    ELSE IF ~packdir.exists
    THEN {RefreshOutcome("Io", packs, last_refresh)}
    ELSE IF \E n \in packdir.entries : IsIdx(n) /\ ~Opens(n)
    THEN {RefreshOutcome("Parse", packs \cup loaded, last_refresh) :
            loaded \in SUBSET {n \in packdir.entries : IsIdx(n) /\ Opens(n)}}
    ELSE {RefreshOutcome("true", packs \cup {n \in packdir.entries : IsIdx(n)}, now)}

\* PackedObjectDatabase::read_object after a first ObjectNotFound
read_object_refreshed(short_id, f) ==
    IF f.res = "true"
    THEN {[res |-> r, packs |-> f.packs, last_refresh |-> f.last_refresh] :
            r \in try_read_object(PackIds, f.packs, short_id)}
    ELSE IF f.res = "false"
    THEN {[res |-> DbErr("ObjectNotFound"), packs |-> f.packs,
           last_refresh |-> f.last_refresh]}
    ELSE {[res |-> DbErr(f.res), packs |-> f.packs, last_refresh |-> f.last_refresh]}

\* PackedObjectDatabase::read_object: the results it can return, each with
\* the pack set and the last_refresh it leaves
packed_read_object(short_id) ==
    UNION { IF IsNotFound(r)
            THEN UNION {read_object_refreshed(short_id, f) : f \in refresh}
            ELSE {[res |-> r, packs |-> packs, last_refresh |-> last_refresh]} :
            r \in try_read_object(PackIds, packs, short_id) }

\* the error of the packed database as the facade sees it, a ReadPackedError:
\* NotFound for ObjectNotFound, Ambiguous, or the error itself
ReadPackedError(r) ==
    IF IsNotFound(r) THEN DbErr("NotFound") ELSE r

\* Err(ReadPackedError::NotFound) / Err(ReadLooseError::NotFound)
FallsThrough(r) == r.tag = "Err" /\ r.err = "NotFound"

\* From<ReadPackedError> for ReadError
ReadErrorFrom(r) ==
    IF r.tag = "Ok" \/ r.err \in {"NotFound", "Ambiguous"} THEN r
    ELSE [tag |-> "Err", err |-> "Packed", source |-> r.err]

\* the facade returns r: a read that did not return Ok is recorded
Missed(id, at, n, r) ==
    IF r.tag = "Ok" THEN missed
    ELSE missed \cup {[id |-> id, began |-> at, n |-> n]}

\* ObjectDatabase::read_object, first match: self.packed.read_object
DbReadPacked(t, id) ==
    /\ lt[t].pc = "idle"
    /\ nops < MaxOps
    /\ nops' = nops + 1
    /\ began' = now
    /\ \E o \in packed_read_object(id) : \E r \in {ReadPackedError(o.res)} :
          /\ packs' = o.packs
          /\ last_refresh' = o.last_refresh
          /\ IF FallsThrough(r)
             THEN /\ lt' = [lt EXCEPT ![t] = [pc |-> "db_loose", op |-> "db_read",
                                              bytes |-> <<>>, id |-> id, res |-> NoOut]]
                  /\ UNCHANGED missed
             ELSE /\ lt' = [lt EXCEPT ![t] = [pc |-> "idle", op |-> "db_read",
                                              bytes |-> <<>>, id |-> id,
                                              res |-> ReadErrorFrom(r)]]
                  /\ missed' = Missed(id, now, nops + 1, r)
    /\ UNCHANGED <<dirs, files, now, written, packdir, added, pureVars, packVars>>

\* second match: self.loose.read_object
DbReadLoose(t) ==
    /\ lt[t].pc = "db_loose"
    /\ lt' = [lt EXCEPT ![t] =
                IF FileExists(files, LoosePath(lt[t].id))
                THEN [lt[t] EXCEPT !.pc = "idle", !.res = DbOk("loose", lt[t].id)]
                ELSE [lt[t] EXCEPT !.pc = "db_packed"]]
    /\ UNCHANGED <<dirs, files, now, written, nops, dbVars, pureVars, packVars>>

\* "object may have just been packed, try again"
DbReadPackedAgain(t) ==
    /\ lt[t].pc = "db_packed"
    /\ \E o \in packed_read_object(lt[t].id) : \E r \in {ReadPackedError(o.res)} :
          /\ packs' = o.packs
          /\ last_refresh' = o.last_refresh
          /\ lt' = [lt EXCEPT ![t].pc = "idle", ![t].res = ReadErrorFrom(r)]
          /\ missed' = Missed(lt[t].id, began, nops, r)
    /\ UNCHANGED <<dirs, files, now, written, nops, packdir, added, began,
                   pureVars, packVars>>

\* another process puts a file into objects/pack
AddEntry(n) ==
    /\ packdir.exists
    /\ n \notin packdir.entries
    /\ packdir' = [packdir EXCEPT !.entries = @ \cup {n}]
    /\ added' = IF Opens(n) THEN added \cup {[name |-> n, at |-> now]} ELSE added
    /\ UNCHANGED <<packs, last_refresh, missed, began, storeVars, pureVars, packVars>>

\* the facade is called with one buffer, whose id pack a.idx holds too, and
\* with the ids of pack a.idx
DbBufs == {<<>>}
DbIds == PackIds["a.idx"]
DbDirNames == DirNames \ {"b.idx"}

DbStep(t) ==
    \/ \E bytes \in DbBufs : WriteMkdir(t, bytes)
    \/ WriteOpen(t)
    \/ WriteData(t)
    \/ \E id \in DbIds : DbReadPacked(t, id)
    \/ DbReadLoose(t)
    \/ DbReadPackedAgain(t)

\* ObjectDatabase::open on a repository whose objects/pack exists or does not
InitDb ==
    /\ StoreIdle
    /\ PureIdle
    /\ PackIdle
    /\ packdir \in {[exists |-> e, entries |-> {}] : e \in BOOLEAN}
    /\ DbOpen

\* SpecDb: one thread calls the facade, one call after the other, while
\* files appear in objects/pack and time passes
NextDb == DbStep(1) \/ (\E n \in DbDirNames : AddEntry(n)) \/ Tick
SpecDb == InitDb /\ [][NextDb]_vars

(***************************************************************************)
(* SpecLookup: try_read_object applied to two loaded packs of generated    *)
(* content and every short id.                                             *)
(***************************************************************************)
InitLookup ==
    /\ \E sh \in ShortIds :
          \E a, b \in {x \in SUBSET Ids : Cardinality(x) \in 1..2} :
              fin = [op |-> "try_read_object", short_id |-> sh,
                     ids |-> [n \in GoodNames |-> IF n = "a.idx" THEN a ELSE b]]
    /\ fout = NoOut
    /\ buf = NewBuffer(<<>>)
    /\ PackIdle
    /\ StoreIdle
    /\ DbIdle

TryReadStep ==
    /\ fin.op = "try_read_object"
    /\ fout = NoOut
    /\ fout' \in try_read_object(fin.ids, GoodNames, fin.short_id)
    /\ UNCHANGED <<fin, buf, packVars, storeVars, dbVars>>

NextLookup == TryReadStep
SpecLookup == InitLookup /\ [][NextLookup]_vars

(***************************************************************************)
(* parse::Buffer (parse/buffer.rs).  buffer holds the bytes read so far,   *)
(* pos counts those handed out, rest is what the reader has yet to give.   *)
(* A read of the reader into k bytes gives any number of bytes from one to *)
(* k, and none at the end of the stream.  intr counts the Interrupted      *)
(* errors the reader may still raise, io tells whether it may still raise  *)
(* an error of another kind.                                               *)
(***************************************************************************)
ReaderRead(rest, k) ==
    IF rest = <<>> \/ k = 0 THEN {0}
    ELSE {m \in 1..k : m <= Len(rest)}

\* the errors a read of the reader can end in
ReaderFault(b) ==
    {e \in {"Interrupted"} : b.intr > 0} \cup {e \in {"Io"} : b.io}

BufErr(b, e) == [b EXCEPT !.res = [tag |-> "Err", err |-> e]]

\* self.buffer.resize(end, b'\0')
Resized(buffer, end) == buffer \o [i \in 1..(end - Len(buffer)) |-> 0]

\* self.buffer.truncate(len)
Truncated(buffer, len) == SubSeq(buffer, 1, Min({len, Len(buffer)}))

\* the reader writes the next m bytes of the stream from old_len on
ReadInto(buffer, old_len, rest, m) ==
    [i \in 1..Len(buffer) |->
        IF old_len < i /\ i <= old_len + m THEN rest[i - old_len] ELSE buffer[i]]

\* fill_buf_to: the buffer after it, in n the length of the slice returned
\* and in err the error of the read
FillRead(b, end, m) ==
    [buffer |-> Truncated(ReadInto(Resized(b.buffer, end), Len(b.buffer), b.rest, m),
                          Len(b.buffer) + m),
     pos |-> b.pos,
     rest |-> SubSeq(b.rest, m + 1, Len(b.rest)), res |-> b.res,
     intr |-> b.intr, io |-> b.io,
     n |-> Len(b.buffer) + m - b.pos, err |-> ""]

\* a variant that leaves the buffer at its new length when the read fails
FillFailPadded(b, end, e) ==
    [buffer |-> Resized(b.buffer, end),
     pos |-> b.pos, rest |-> b.rest, res |-> b.res,
     intr |-> IF e = "Interrupted" THEN b.intr - 1 ELSE b.intr,
     io |-> IF e = "Io" THEN FALSE ELSE b.io,
     n |-> 0, err |-> e]

\* fill_buf_to when the read fails with e: the buffer is cut back to old_len
FillFail(b, end, e) ==
    [buffer |-> Truncated(Resized(b.buffer, end), Len(b.buffer)),
     pos |-> b.pos, rest |-> b.rest, res |-> b.res,
     intr |-> IF e = "Interrupted" THEN b.intr - 1 ELSE b.intr,
     io |-> IF e = "Io" THEN FALSE ELSE b.io,
     n |-> 0, err |-> e]

fill_buf_to(b, end) ==
    IF end > Len(b.buffer)
    THEN {FillRead(b, end, m) : m \in ReaderRead(b.rest, end - Len(b.buffer))}
         \cup {FillFail(b, end, e) : e \in ReaderFault(b)}
    ELSE {[buffer |-> b.buffer, pos |-> b.pos, rest |-> b.rest, res |-> b.res,
           intr |-> b.intr, io |-> b.io,
           n |-> end - b.pos, err |-> ""]}

Advance(f, by, res) ==
    [buffer |-> f.buffer, pos |-> f.pos + by, rest |-> f.rest, res |-> res,
     intr |-> f.intr, io |-> f.io]

\* read_exact: the buffers it can end in, res.tag "Ok" with the range or "Err"
RECURSIVE read_exact_loop(_, _, _)
read_exact_loop(b, first, end) ==
    IF b.pos = end
    THEN {[b EXCEPT !.res = [tag |-> "Ok", first |-> first, end |-> end]]}
    ELSE UNION { IF f.err = "Interrupted"
                 THEN read_exact_loop(Advance(f, 0, f.res), first, end)
                 ELSE IF f.err # ""
                 THEN {BufErr(Advance(f, 0, f.res), f.err)}
                 ELSE IF f.n = 0
                 THEN {BufErr(Advance(f, 0, f.res), "InvalidLength")}
                 ELSE read_exact_loop(Advance(f, f.n, f.res), first, end) :
                 f \in fill_buf_to(b, end) }

read_exact(b, size) == read_exact_loop(b, b.pos, b.pos + size)

\* a variant that searches the slice from its end, as memrchr does
DelimEndLast(f, delim) ==
    IF \E i \in 1..f.n : f.buffer[f.pos + i] = delim
    THEN Max({i \in 1..f.n : f.buffer[f.pos + i] = delim})
    ELSE 0

\* memchr(delim, slice).map(|index| index + 1) on the slice of n bytes at pos
DelimEnd(f, delim) ==
    IF \E i \in 1..f.n : f.buffer[f.pos + i] = delim
    THEN Min({i \in 1..f.n : f.buffer[f.pos + i] = delim})
    ELSE 0

\* read_until_byte: Ok with the range up to and with the delimiter, Ok with
\* no range and pos back at its first value, or UnexpectedEof
RECURSIVE read_until_loop(_, _, _, _)
read_until_loop(b, first, end, delim) ==
    IF b.pos = end
    THEN {[b EXCEPT !.pos = first, !.res = [tag |-> "None"]]}
    ELSE UNION { IF f.err = "Interrupted"
                 THEN read_until_loop(Advance(f, 0, f.res), first, end, delim)
                 ELSE IF f.err # ""
                 THEN {BufErr(Advance(f, 0, f.res), f.err)}
                 ELSE IF f.n = 0
                 THEN {BufErr(Advance(f, 0, f.res), "UnexpectedEof")}
                 ELSE IF DelimEnd(f, delim) # 0
                 THEN {Advance(f, DelimEnd(f, delim),
                               [tag |-> "Ok", first |-> first,
                                end |-> f.pos + DelimEnd(f, delim)])}
                 ELSE read_until_loop(Advance(f, f.n, f.res), first, end, delim) :
                 f \in fill_buf_to(b, end) }

read_until_byte(b, delim, size) == read_until_loop(b, b.pos, b.pos + size, delim)

\* self.reader.read(&mut [0]) after read_exact, in a loop that goes round
\* on Interrupted: the buffers the call can end in
RECURSIVE ReaderProbe(_)
ReaderProbe(e) ==
    { IF m = 0
      THEN [buffer |-> <<>>, pos |-> 0, rest |-> e.rest,
            res |-> [tag |-> "Ok", bytes |-> e.buffer],
            intr |-> e.intr, io |-> e.io]
      ELSE BufErr(e, "InvalidLength") : m \in ReaderRead(e.rest, 1) }
    \cup UNION { IF x = "Interrupted"
                 THEN ReaderProbe([e EXCEPT !.intr = e.intr - 1])
                 ELSE {BufErr([e EXCEPT !.io = FALSE], x)} : x \in ReaderFault(e) }

\* read_to_end_by_ref: read_exact, then reads of the reader into one byte
\* until one gives nothing; the whole buffer is handed back and pos is 0 again
read_to_end(b, size) ==
    UNION { IF e.res.tag = "Err" THEN {e} ELSE ReaderProbe(e) :
            e \in read_exact(b, size) }

\* the bytes of the stream not yet handed out: buffered past pos, or unread
Remaining(b) == (Len(b.buffer) - b.pos) + Len(b.rest)

StreamBytes == {0, 7}
Streams == UNION {SeqsOfLen(StreamBytes, n) : n \in 0..MaxStream}

InitBuffer ==
    /\ fin = NoIn
    /\ fout = NoOut
    /\ buf \in {NewBuffer(stream) : stream \in Streams}
    /\ PackIdle
    /\ StoreIdle
    /\ DbIdle

\* fin keeps the call and the bytes that remained before it
Called(op, size) ==
    [op |-> op, size |-> size, remaining |-> Remaining(buf), intr |-> buf.intr]

BufferLive == buf.res.tag # "Err" /\ fin.op # "read_to_end"

ReadUntilByteStep(size) ==
    /\ BufferLive
    /\ buf' \in read_until_byte(buf, 0, size)
    /\ fin' = Called("read_until_byte", size)
    /\ UNCHANGED <<fout, packVars, storeVars, dbVars>>

ReadExactStep(size) ==
    /\ BufferLive
    /\ buf' \in read_exact(buf, size)
    /\ fin' = Called("read_exact", size)
    /\ UNCHANGED <<fout, packVars, storeVars, dbVars>>

ReadToEndStep(size) ==
    /\ BufferLive
    /\ buf' \in read_to_end(buf, size)
    /\ fin' = Called("read_to_end", size)
    /\ UNCHANGED <<fout, packVars, storeVars, dbVars>>

\* SpecBuffer: calls of one Buffer over every stream, read in every chunking
NextBuffer ==
    \E size \in 0..MaxStream :
        ReadUntilByteStep(size) \/ ReadExactStep(size) \/ ReadToEndStep(size)
SpecBuffer == InitBuffer /\ [][NextBuffer]_vars

\* SpecEintr: the same calls over readers that raise up to MaxIntr
\* Interrupted errors, and at most one error of another kind, between reads
FaultyBuffer(stream, intr, io) ==
    [NewBuffer(stream) EXCEPT !.intr = intr, !.io = io]

InitEintr ==
    /\ fin = NoIn
    /\ fout = NoOut
    /\ buf \in {FaultyBuffer(stream, intr, io) :
                   stream \in Streams, intr \in 0..MaxIntr, io \in BOOLEAN}
    /\ PackIdle
    /\ StoreIdle
    /\ DbIdle

SpecEintr == InitEintr /\ [][NextBuffer]_vars

(***************************************************************************)
(* Object header (object/parse.rs).  Bytes are ASCII codes; a length is    *)
(* kept as its decimal digits without leading zeros, so that the 64-bit    *)
(* limit is compared digit by digit.                                       *)
(***************************************************************************)
SPACE == 32
NUL == 0

\* ObjectKind::from_bytes
KindWords == {<<99, 111, 109, 109, 105, 116>>, <<116, 114, 101, 101>>,
              <<98, 108, 111, 98>>, <<116, 97, 103>>}
KindOfWord(w) ==
    IF w = <<99, 111, 109, 109, 105, 116>> THEN "Commit"
    ELSE IF w = <<116, 114, 101, 101>> THEN "Tree"
    ELSE IF w = <<98, 108, 111, 98>> THEN "Blob"
    ELSE "Tag"

\* the digits of usize::MAX, 18446744073709551615
UsizeMaxDigits ==
    <<49, 56, 52, 52, 54, 55, 52, 52, 48, 55, 51, 55, 48, 57, 53, 53, 49, 54, 49, 53>>

IsDigit(b) == b >= 48 /\ b <= 57
AllDigits(text) == text # <<>> /\ \A i \in 1..Len(text) : IsDigit(text[i])

RECURSIVE StripZeros(_)
StripZeros(digits) ==
    IF Len(digits) > 1 /\ digits[1] = 48 THEN StripZeros(Tail(digits)) ELSE digits

FitsUsize(digits) ==
    \/ Len(digits) < Len(UsizeMaxDigits)
    \/ Len(digits) = Len(UsizeMaxDigits) /\ CmpBytes(digits, UsizeMaxDigits) # "Greater"

\* Parser::consume_until(ch): the range in front of the first ch at or after
\* pos, with pos moved past ch
HasByte(bytes, pos, ch) == \E i \in (pos + 1)..Len(bytes) : bytes[i] = ch
FirstByte(bytes, pos, ch) == Min({i \in (pos + 1)..Len(bytes) : bytes[i] = ch})

\* usize::from_str skips one leading '+'
from_str_digits(text) ==
    IF text # <<>> /\ text[1] = 43 THEN Tail(text) ELSE text

\* usize::from_str
from_str(text) ==
    With(from_str_digits(text),
         LAMBDA digits :
            IF ~AllDigits(digits) THEN [ok |-> FALSE, len |-> <<>>]
            ELSE IF ~FitsUsize(StripZeros(digits)) THEN [ok |-> FALSE, len |-> <<>>]
            ELSE [ok |-> TRUE, len |-> StripZeros(digits)])

HeaderErr2(e) == [tag |-> "Err", err |-> e]

\* the length part of parse_object_header, the kind range ending before sp
parse_header_len(bytes, sp) ==
    IF ~HasByte(bytes, sp, NUL)
    THEN HeaderErr2("Other")
    ELSE With(SubSeq(bytes, sp + 1, FirstByte(bytes, sp, NUL) - 1),
              LAMBDA text :
                 IF \E i \in 1..Len(text) : text[i] >= 128
                 THEN HeaderErr2("Other")
                 ELSE With(from_str(text),
                           LAMBDA n :
                              IF ~n.ok THEN HeaderErr2("LengthTooBig")
                              ELSE [tag |-> "Ok",
                                    kind |-> KindOfWord(SubSeq(bytes, 1, sp - 1)),
                                    len |-> n.len,
                                    pos |-> Len(text) + sp + 1]))

\* Parser::parse_object_header
parse_object_header(bytes) ==
    IF ~HasByte(bytes, 0, SPACE)
    THEN HeaderErr2("Other")
    ELSE With(FirstByte(bytes, 0, SPACE),
              LAMBDA sp :
                 IF SubSeq(bytes, 1, sp - 1) \notin KindWords
                 THEN HeaderErr2("ParseObjectKind")
                 ELSE parse_header_len(bytes, sp))

\* generated headers: a kind word or not, a space or not, a length text, a
\* NUL or not, a body
HeaderWords == KindWords \cup {<<98, 108, 111, 98, 115>>, <<>>}
TextBytes == {48, 51, 43, 120}
HeaderTexts ==
    UNION {SeqsOfLen(TextBytes, n) : n \in 0..MaxText}
    \cup {UsizeMaxDigits,
          [UsizeMaxDigits EXCEPT ![20] = 54],
          UsizeMaxDigits \o <<48>>,
          <<48>> \o UsizeMaxDigits,
          <<43>> \o UsizeMaxDigits}
HeaderBodies == {<<>>, <<97>>, <<97, SPACE, 51, NUL>>}

InitHeader ==
    /\ \E w \in HeaderWords, sep \in {<<SPACE>>, <<>>}, term \in {<<NUL>>, <<>>} :
          \E text \in HeaderTexts, body \in HeaderBodies :
              fin = [op |-> "parse_object_header",
                     bytes |-> w \o sep \o text \o term \o body]
    /\ fout = NoOut
    /\ buf = NewBuffer(<<>>)
    /\ PackIdle
    /\ StoreIdle
    /\ DbIdle

ParseHeaderStep ==
    /\ fin.op = "parse_object_header"
    /\ fout = NoOut
    /\ fout' = parse_object_header(fin.bytes)
    /\ UNCHANGED <<fin, buf, packVars, storeVars, dbVars>>

NextHeader == ParseHeaderStep
SpecHeader == InitHeader /\ [][NextHeader]_vars

\* what the format '<kind> <decimal length>\0' asks of the bytes: the place
\* of the NUL that ends a well-formed header, 0 when there is none
WellFormedEnd(bytes) ==
    IF \E w \in KindWords : \E j \in (Len(w) + 3)..Len(bytes) :
          /\ SubSeq(bytes, 1, Len(w)) = w
          /\ bytes[Len(w) + 1] = SPACE
          /\ bytes[j] = NUL
          /\ AllDigits(SubSeq(bytes, Len(w) + 2, j - 1))
    THEN CHOOSE j \in 1..Len(bytes) : \E w \in KindWords :
          /\ j >= Len(w) + 3
          /\ SubSeq(bytes, 1, Len(w)) = w
          /\ bytes[Len(w) + 1] = SPACE
          /\ bytes[j] = NUL
          /\ AllDigits(SubSeq(bytes, Len(w) + 2, j - 1))
    ELSE 0

HeaderWordOf(bytes) == CHOOSE w \in KindWords : SubSeq(bytes, 1, Len(w) + 1) = w \o <<SPACE>>
HeaderDigitsOf(bytes) ==
    SubSeq(bytes, Len(HeaderWordOf(bytes)) + 2, WellFormedEnd(bytes) - 1)

(***************************************************************************)
(* SpecChainFair: thread 1 holds the file mutex and runs the loop of       *)
(* PackFile::find_chain, one turn per step, on a generated pack of at most *)
(* MaxLinks entries.  links[i] = [kind, to] describes entry i: a Blob, a   *)
(* RefDelta naming the id of entry to, or an OfsDelta whose distance leads *)
(* back to entry to <= i.  The index of the pack, kept in pack.index,      *)
(* lists every entry, so the references of RefDelta entries may form       *)
(* cycles.                                                                 *)
(***************************************************************************)
MaxLinks == 3

LinkChoices(n, i) ==
    {[kind |-> "Blob", to |-> 0]}
        \cup {[kind |-> "RefDelta", to |-> j] : j \in 1..n}
        \cup {[kind |-> "OfsDelta", to |-> j] : j \in 1..i}

RECURSIVE LinkOffset(_, _)
\* the bytes of entry i; every delta stream is <<0, 0>>: base_len 0,
\* result_len 0, no commands
LinkEntry(links, i) ==
    CASE links[i].kind = "Blob" ->
            EncodeObjHeader("Blob", 1) \o Deflate(<<7>>)
      [] links[i].kind = "RefDelta" ->
            EncodeObjHeader("RefDelta", 2) \o ObjId(links[i].to) \o Deflate(<<0, 0>>)
      [] OTHER ->
            EncodeObjHeader("OfsDelta", 2)
                \o EncodeOfs(LinkOffset(links, i) - LinkOffset(links, links[i].to))
                \o Deflate(<<0, 0>>)

LinkOffset(links, i) ==
    IF i = 1 THEN PackHeaderLen
    ELSE LinkOffset(links, i - 1) + Len(LinkEntry(links, i - 1))

RECURSIVE LinkEntries(_, _)
LinkEntries(links, i) ==
    IF i > Len(links) THEN <<>>
    ELSE LinkEntry(links, i) \o LinkEntries(links, i + 1)

LinkBytes(links) ==
    PackFileHeaderBytes(Len(links)) \o LinkEntries(links, 1) \o ObjId(7)

LinkIndex(links) ==
    MkIndex("V2", { [id |-> ObjId(i), offset |-> LinkOffset(links, i), large |-> FALSE] :
                        i \in 1..Len(links) })

\* thread 1 is in the loop of find_chain, about to seek to offset
Walking(offset, chain) ==
    [pc |-> "walk", chain |-> chain, header |-> ObjectHeader("", 0), base |-> <<>>,
     res |-> NoOut, offset |-> offset]

\* find_chain has returned r
Walked(r) ==
    [pc |-> "done", chain |-> r.chain, header |-> r.header, base |-> r.base,
     res |-> [tag |-> r.tag, err |-> r.err], offset |-> 0]

\* The loop never reads the chain it collects.  A chain longer than the
\* number of entries of the pack holds some entry twice; the model keeps the
\* MaxLinks entries pushed last of such a chain.
LastPushed(chain) ==
    IF Len(chain) > MaxLinks THEN SubSeq(chain, Len(chain) - MaxLinks + 1, Len(chain))
    ELSE chain

InitChain ==
    /\ \E n \in 1..MaxLinks :
          \E links \in {l \in SeqsOfLen(LinkChoices(n, n), n) :
                            \A i \in 1..n : l[i] \in LinkChoices(n, i)},
             s \in 1..n :
              /\ pack = [desc |-> [links |-> links], file |-> LinkBytes(links),
                         offset |-> LinkOffset(links, s),
                         index |-> LinkIndex(links)]
              /\ th = [t \in Threads |->
                          IF t = 1 THEN Walking(LinkOffset(links, s), <<>>)
                          ELSE IdleThread]
    /\ cache = <<>>
    /\ poisoned = FALSE
    /\ PureIdle
    /\ StoreIdle
    /\ DbIdle

FindChainTurn ==
    /\ th[1].pc = "walk"
    /\ \E r \in {find_chain_turn(pack.file, pack.index, cache,
                                 th[1].offset, th[1].chain)} :
          /\ cache' = r.cache
          /\ th' = [th EXCEPT ![1] =
                      IF r.tag = "More" THEN Walking(r.offset, LastPushed(r.chain))
                      ELSE Walked(r)]
    /\ UNCHANGED <<pack, poisoned, pureVars, storeVars, dbVars>>

NextChain == FindChainTurn

\* the thread in find_chain is running: it takes the next turn of the loop
SpecChainFair == InitChain /\ [][NextChain]_vars /\ WF_vars(NextChain)

(***************************************************************************)
(* SpecCommand: read_command applied to a delta stream that starts with a  *)
(* command byte, for every value of that byte, with and without the bytes  *)
(* a copy command may read after it.                                       *)
(***************************************************************************)
CommandArgs == {<<>>, <<1, 2, 3, 4, 5, 6, 7>>}

InitCommand ==
    /\ \E cmd \in 0..255, args \in CommandArgs :
          fin = [op |-> "read_command", cmd |-> cmd, stream |-> <<cmd>> \o args]
    /\ fout = NoOut
    /\ buf = NewBuffer(<<>>)
    /\ PackIdle
    /\ StoreIdle
    /\ DbIdle

ReadCommandStep ==
    /\ fin.op = "read_command"
    /\ fout = NoOut
    /\ fout' = read_command(fin.stream, 0)
    /\ UNCHANGED <<fin, buf, packVars, storeVars, dbVars>>

NextCommand == ReadCommandStep

SpecCommand == InitCommand /\ [][NextCommand]_vars

(***************************************************************************)
(* SpecVarint: read_pack_object_header and read_delta_offset applied at    *)
(* the front of a file that starts with a varint of n bytes: a first byte  *)
(* with payload first, n - 2 bytes with payload mid, all with the          *)
(* continuation bit, and a last byte without it.                           *)
(***************************************************************************)
FirstPayloads == {0, 1, 2, 17, 31, 127}
MidPayloads == {0, 127}
LastPayloads == {0, 1, 15, 16, 31, 127}

VarintBytes(n, first, mid, last) ==
    IF n = 1 THEN <<last>>
    ELSE <<128 + first>> \o [i \in 1..(n - 2) |-> 128 + mid] \o <<last>>

InitVarint ==
    /\ \E op \in {"read_pack_object_header", "read_delta_offset"},
          n \in 1..MAX_DELTA_OFFSET_LEN,
          first \in FirstPayloads, mid \in MidPayloads, last \in LastPayloads :
          fin = [op |-> op, bytes |-> VarintBytes(n, first, mid, last)]
    /\ fout = NoOut
    /\ buf = NewBuffer(<<>>)
    /\ PackIdle
    /\ StoreIdle
    /\ DbIdle

ReadPackObjectHeaderStep ==
    /\ fin.op = "read_pack_object_header"
    /\ fout = NoOut
    /\ fout' = read_pack_object_header_usize(fin.bytes, 0)
    /\ UNCHANGED <<fin, buf, packVars, storeVars, dbVars>>

ReadDeltaOffsetStep ==
    /\ fin.op = "read_delta_offset"
    /\ fout = NoOut
    /\ fout' = read_delta_offset_u64(fin.bytes, 0)
    /\ UNCHANGED <<fin, buf, packVars, storeVars, dbVars>>

NextVarint == ReadPackObjectHeaderStep \/ ReadDeltaOffsetStep

SpecVarint == InitVarint /\ [][NextVarint]_vars

\* bit j (from 0, the least significant) of the u64 x
BitOfU64(x, j) == (x[(j \div 8) + 1] \div (2 ^ (j % 8))) % 2

\* the number of payload bits of the varint bytes under op, and bit j of the
\* number these payload bits spell: for an offset the groups of seven bits,
\* the first byte the most significant; for a header the low four bits of
\* the first byte and then the groups of seven, the least significant first
PayloadBits(op, bytes) ==
    IF op = "read_delta_offset" THEN 7 * Len(bytes) ELSE 4 + 7 * (Len(bytes) - 1)

PayloadBit(op, bytes, j) ==
    IF op = "read_delta_offset"
    THEN ((bytes[Len(bytes) - (j \div 7)] % 128) \div (2 ^ (j % 7))) % 2
    ELSE IF j < 4 THEN ((bytes[1] % 16) \div (2 ^ j)) % 2
    ELSE ((bytes[2 + ((j - 4) \div 7)] % 128) \div (2 ^ ((j - 4) % 7))) % 2

RECURSIVE BiasedBE(_, _)
\* val = b0 & 0x7f, and val = ((val + 1) << 7) | (b & 0x7f) for each further
\* byte
BiasedBE(bytes, val) ==
    IF bytes = <<>> THEN val
    ELSE BiasedBE(Tail(bytes), (val + 1) * 128 + (bytes[1] % 128))

(***************************************************************************)
(* SpecRefresh: NThreads threads call PackedObjectDatabase::refresh, each  *)
(* call a step that takes the last_refresh mutex, a step that looks at     *)
(* last_refresh and opens the directory, one step per directory entry, and *)
(* a step that stores the time and returns.  A thread holds the mutex      *)
(* while its pc is "rf_gate" or "rf_scan".                                 *)
(***************************************************************************)
RefreshPcs == {"rf_gate", "rf_scan"}

\* a mutex that excludes nobody
GateFreeAlways(callers) == TRUE

\* self.last_refresh.lock() returns: no thread holds the guard
GateFree(callers) == \A u \in DOMAIN callers : callers[u].pc \notin RefreshPcs

\* the thread is inside refresh: seen are the directory entries the loop
\* has been through
Refreshing(pc, seen) ==
    [pc |-> pc, op |-> "refresh", bytes |-> <<>>, id |-> <<>>, res |-> NoOut,
     seen |-> seen]

\* refresh has returned res, and the guard is dropped
Refreshed(res) ==
    [pc |-> "idle", op |-> "refresh", bytes |-> <<>>, id |-> <<>>,
     res |-> [tag |-> res], seen |-> {}]

\* let mut last_refresh_guard = self.last_refresh.lock().unwrap()
RefreshLock(t) ==
    /\ lt[t].pc = "idle"
    /\ nops < MaxOps
    /\ GateFree(lt)
    /\ nops' = nops + 1
    /\ lt' = [lt EXCEPT ![t] = Refreshing("rf_gate", {})]
    /\ UNCHANGED <<dirs, files, now, written, dbVars, pureVars, packVars>>

\* the match on *last_refresh_guard, and fs_err::read_dir(&self.path)?
RefreshGate(t) ==
    /\ lt[t].pc = "rf_gate"
    /\ lt' = [lt EXCEPT ![t] =
                IF WithinInterval(last_refresh, now) THEN Refreshed("false")
                ELSE IF ~packdir.exists THEN Refreshed("Io")
                ELSE Refreshing("rf_scan", {})]
    /\ UNCHANGED <<dirs, files, now, written, nops, dbVars, pureVars, packVars>>

\* one turn of `for entry in read_dir`: an entry with the extension idx is
\* opened and inserted unless the map holds its path already
RefreshEntry(t, n) ==
    /\ lt[t].pc = "rf_scan"
    /\ n \in packdir.entries \ lt[t].seen
    /\ IF IsIdx(n) /\ n \notin packs /\ ~Opens(n)
       THEN /\ lt' = [lt EXCEPT ![t] = Refreshed("Parse")]
            /\ UNCHANGED packs
       ELSE /\ lt' = [lt EXCEPT ![t] = Refreshing("rf_scan", lt[t].seen \cup {n})]
            /\ packs' = IF IsIdx(n) THEN packs \cup {n} ELSE packs
    /\ UNCHANGED <<dirs, files, now, written, nops, packdir, last_refresh, added,
                   missed, began, pureVars, packVars>>

\* the directory has no further entry: *last_refresh_guard =
\* Some(Instant::now()); Ok(true)
RefreshDone(t) ==
    /\ lt[t].pc = "rf_scan"
    /\ packdir.entries \subseteq lt[t].seen
    /\ last_refresh' = now
    /\ lt' = [lt EXCEPT ![t] = Refreshed("true")]
    /\ UNCHANGED <<dirs, files, now, written, nops, packdir, packs, added,
                   missed, began, pureVars, packVars>>

RefreshStep(t) ==
    \/ RefreshLock(t)
    \/ RefreshGate(t)
    \/ \E n \in DirNames : RefreshEntry(t, n)
    \/ RefreshDone(t)

InitRefresh == InitDb

NextRefresh ==
    \/ \E t \in Threads : RefreshStep(t)
    \/ \E n \in DirNames : AddEntry(n)
    \/ Tick

SpecRefresh == InitRefresh /\ [][NextRefresh]_vars

(***************************************************************************)
(* SpecLocks: NThreads threads call PackedObjectDatabase::read_object      *)
(* once each, one step per lock taken.  The locks are the shard of the     *)
(* pack set (a read-write lock: DashMap::iter holds it for reading while   *)
(* the loop looks at a pack of the shard, DashMap::entry for writing), the *)
(* last_refresh mutex, the file mutex of the pack and the shard of its     *)
(* cache.  Who holds which lock follows from the pcs.  The object read     *)
(* lives in the pack a.idx or in none.                                     *)
(***************************************************************************)
ReadPack == "a.idx"

\* the iterator of try_read_object is alive, also while refresh runs
IterAliveLate(pc) ==
    pc \in {"lk_iter", "lk_file", "lk_walk", "lk_entry", "lk_apply", "lk_delta",
            "lk_miss", "rf_gate", "rf_scan", "rf_open"}

\* `for pack in self.packs.iter()` is running: the thread holds the read
\* guard of the shard until try_read_object returns
IterAlive(pc) ==
    pc \in {"lk_iter", "lk_file", "lk_walk", "lk_entry", "lk_apply", "lk_delta"}

\* the thread is inside or_try_insert_with, under the write guard
ShardWritten(pc) == pc = "rf_open"
\* the thread holds the guard of self.file
FileHeld(pc) == pc \in {"lk_walk", "lk_entry", "lk_delta"}
\* the thread holds the entry of self.cache
CacheHeld(pc) == pc = "lk_entry"
\* the thread holds the guard of self.last_refresh
GateHeld(pc) == pc \in {"rf_gate", "rf_scan", "rf_open"}

ShardReadable(callers) == \A u \in DOMAIN callers : ~ShardWritten(callers[u].pc)
ShardWritable(callers, t) ==
    \A u \in DOMAIN callers \ {t} :
        ~IterAlive(callers[u].pc) /\ ~ShardWritten(callers[u].pc)
FileFree(callers) == \A u \in DOMAIN callers : ~FileHeld(callers[u].pc)
CacheFree(callers) == \A u \in DOMAIN callers : ~CacheHeld(callers[u].pc)
LastRefreshFree(callers) == \A u \in DOMAIN callers : ~GateHeld(callers[u].pc)

\* a thread inside read_object: retry tells the second try_read_object, walk
\* counts the turns of find_chain before the base, deltas the chain entries
\* pushed or yet to apply, seen the directory entries refresh has been
\* through, cur the entry it is at
Locker(pc, retry, walk, deltas, seen) ==
    [pc |-> pc, retry |-> retry, walk |-> walk, deltas |-> deltas, seen |-> seen,
     cur |-> "", res |-> ""]

LockerDone(res) ==
    [pc |-> "done", retry |-> FALSE, walk |-> 0, deltas |-> 0, seen |-> {},
     cur |-> "", res |-> res]

\* try_read_object: self.packs.iter() takes the read guard of the shard
LkIter(t) ==
    /\ lt[t].pc \in {"idle", "lk_retry"}
    /\ ShardReadable(lt)
    /\ lt' = [lt EXCEPT ![t] = Locker("lk_iter", lt[t].pc = "lk_retry", 0, 0, {})]
    /\ UNCHANGED <<dirs, files, now, written, nops, dbVars, pureVars, packVars>>

\* find_offset gives Ok in the pack: pack.read_object(offset), whose chain
\* has d deltas before its base
LkFound(t, d) ==
    /\ lt[t].pc = "lk_iter"
    /\ ReadPack \in packs
    /\ lt' = [lt EXCEPT ![t] = Locker("lk_file", lt[t].retry, d, 0, {})]
    /\ UNCHANGED <<dirs, files, now, written, nops, dbVars, pureVars, packVars>>

\* no pack holds the id: the iterator is dropped; the first time round
\* read_object goes on to refresh, the second time it returns ObjectNotFound
LkNotFound(t) ==
    /\ lt[t].pc = "lk_iter"
    /\ lt' = [lt EXCEPT ![t] = IF lt[t].retry THEN LockerDone("ObjectNotFound")
                               ELSE Locker("lk_miss", FALSE, 0, 0, {})]
    /\ UNCHANGED <<dirs, files, now, written, nops, dbVars, pureVars, packVars>>

\* find_chain: self.file.lock().unwrap(), a panic when the mutex is poisoned
LkFileLock(t) ==
    /\ lt[t].pc = "lk_file"
    /\ FileFree(lt)
    /\ lt' = [lt EXCEPT ![t] = IF poisoned THEN LockerDone("Panic")
                               ELSE [lt[t] EXCEPT !.pc = "lk_walk"]]
    /\ UNCHANGED <<dirs, files, now, written, nops, dbVars, pureVars, packVars>>

\* find_chain: self.cache.entry(offset)
LkCacheEntry(t) ==
    /\ lt[t].pc = "lk_walk"
    /\ CacheFree(lt)
    /\ lt' = [lt EXCEPT ![t].pc = "lk_entry"]
    /\ UNCHANGED <<dirs, files, now, written, nops, dbVars, pureVars, packVars>>

\* the rest of the turn.  A delta entry is pushed and the entry guard is
\* dropped at the end of the turn; an occupied entry or a concrete object
\* ends the walk (how = "Ok"), an error of a read ends the call ("Err"): both
\* drop the entry guard and the file guard
LkTurn(t, how) ==
    /\ lt[t].pc = "lk_entry"
    /\ lt' = [lt EXCEPT ![t] =
                CASE how = "Err" -> LockerDone("Err")
                  [] how = "More" /\ lt[t].walk > 0 ->
                        [lt[t] EXCEPT !.pc = "lk_walk", !.walk = @ - 1,
                                      !.deltas = @ + 1]
                  [] OTHER ->
                        IF lt[t].deltas = 0 THEN LockerDone("Ok")
                        ELSE [lt[t] EXCEPT !.pc = "lk_apply", !.walk = 0]]
    /\ UNCHANGED <<dirs, files, now, written, nops, dbVars, pureVars, packVars>>

\* apply_delta: self.file.lock().unwrap()
LkApplyLock(t) ==
    /\ lt[t].pc = "lk_apply"
    /\ FileFree(lt)
    /\ lt' = [lt EXCEPT ![t] = IF poisoned THEN LockerDone("Panic")
                               ELSE [lt[t] EXCEPT !.pc = "lk_delta"]]
    /\ UNCHANGED <<dirs, files, now, written, nops, dbVars, pureVars, packVars>>

\* apply_delta under the file guard: it panics, which poisons the mutex,
\* fails, or inserts its result into the cache and returns
LkDelta(t, how) ==
    /\ lt[t].pc = "lk_delta"
    /\ how = "Ok" => CacheFree(lt)
    /\ poisoned' = (poisoned \/ how = "Panic")
    /\ lt' = [lt EXCEPT ![t] =
                CASE how = "Panic" -> LockerDone("Panic")
                  [] how = "Err" -> LockerDone("Err")
                  [] OTHER ->
                        IF lt[t].deltas = 1 THEN LockerDone("Ok")
                        ELSE [lt[t] EXCEPT !.pc = "lk_apply", !.deltas = @ - 1]]
    /\ UNCHANGED <<dirs, files, now, written, nops, dbVars, pureVars, pack, cache, th>>

\* refresh: self.last_refresh.lock().unwrap()
LkGate(t) ==
    /\ lt[t].pc = "lk_miss"
    /\ LastRefreshFree(lt)
    /\ lt' = [lt EXCEPT ![t].pc = "rf_gate"]
    /\ UNCHANGED <<dirs, files, now, written, nops, dbVars, pureVars, packVars>>

\* the match on *last_refresh_guard, and fs_err::read_dir(&self.path)?
LkGateCheck(t) ==
    /\ lt[t].pc = "rf_gate"
    /\ lt' = [lt EXCEPT ![t] =
                IF WithinInterval(last_refresh, now) THEN LockerDone("ObjectNotFound")
                ELSE IF ~packdir.exists THEN LockerDone("Io")
                ELSE [lt[t] EXCEPT !.pc = "rf_scan", !.seen = {}]]
    /\ UNCHANGED <<dirs, files, now, written, nops, dbVars, pureVars, packVars>>

\* a directory entry without the extension idx
LkSkip(t, n) ==
    /\ lt[t].pc = "rf_scan"
    /\ n \in packdir.entries \ lt[t].seen
    /\ ~IsIdx(n)
    /\ lt' = [lt EXCEPT ![t].seen = @ \cup {n}]
    /\ UNCHANGED <<dirs, files, now, written, nops, dbVars, pureVars, packVars>>

\* self.packs.entry(path) takes the write guard of the shard
LkEntry(t, n) ==
    /\ lt[t].pc = "rf_scan"
    /\ n \in packdir.entries \ lt[t].seen
    /\ IsIdx(n)
    /\ ShardWritable(lt, t)
    /\ lt' = [lt EXCEPT ![t].pc = "rf_open", ![t].cur = n]
    /\ UNCHANGED <<dirs, files, now, written, nops, dbVars, pureVars, packVars>>

\* or_try_insert_with(PackFile::open): the pack is inserted unless the map
\* holds it, and the guard is dropped; an error of open ends refresh
LkOpen(t, n) ==
    /\ lt[t].pc = "rf_open"
    /\ n = lt[t].cur
    /\ IF n \notin packs /\ ~Opens(n)
       THEN /\ lt' = [lt EXCEPT ![t] = LockerDone("Parse")]
            /\ UNCHANGED packs
       ELSE /\ lt' = [lt EXCEPT ![t].pc = "rf_scan", ![t].cur = "",
                                ![t].seen = @ \cup {n}]
            /\ packs' = packs \cup {n}
    /\ UNCHANGED <<dirs, files, now, written, nops, packdir, last_refresh, added,
                   missed, began, pureVars, packVars>>

\* *last_refresh_guard = Some(Instant::now()); Ok(true): the guard is
\* dropped and read_object calls try_read_object again
LkRefreshed(t) ==
    /\ lt[t].pc = "rf_scan"
    /\ packdir.entries \subseteq lt[t].seen
    /\ last_refresh' = now
    /\ lt' = [lt EXCEPT ![t].pc = "lk_retry"]
    /\ UNCHANGED <<dirs, files, now, written, nops, packdir, packs, added,
                   missed, began, pureVars, packVars>>

LkStep(t) ==
    \/ LkIter(t)
    \/ \E d \in 0..MaxDeltas : LkFound(t, d)
    \/ LkNotFound(t)
    \/ LkFileLock(t)
    \/ LkCacheEntry(t)
    \/ \E how \in {"More", "Ok", "Err"} : LkTurn(t, how)
    \/ LkApplyLock(t)
    \/ \E how \in {"Ok", "Err", "Panic"} : LkDelta(t, how)
    \/ LkGate(t)
    \/ LkGateCheck(t)
    \/ \E n \in DirNames : LkSkip(t, n) \/ LkEntry(t, n) \/ LkOpen(t, n)
    \/ LkRefreshed(t)

InitLocks ==
    /\ dirs = {}
    /\ files = {}
    /\ now = 0
    /\ lt = [t \in Threads |-> Locker("idle", FALSE, 0, 0, {})]
    /\ written = {}
    /\ nops = 0
    /\ PureIdle
    /\ PackIdle
    /\ packdir \in {[exists |-> e, entries |-> ns] :
                       e \in BOOLEAN, ns \in SUBSET DirNames}
    /\ DbOpen

NextLocks == (\E t \in Threads : LkStep(t)) \/ Tick
SpecLocks == InitLocks /\ [][NextLocks]_vars

\* every thread that can take a step is scheduled in the end
SpecLocksFair == SpecLocks /\ \A t \in Threads : WF_vars(LkStep(t))

(***************************************************************************)
(* SpecCommit: Commit::parse (object/commit.rs) on the bytes of a commit.  *)
(* A text is a sequence of characters; the parser is the text and the      *)
(* number of characters it has passed.                                     *)
(***************************************************************************)
ID_HEX_LEN == 40
LF == "\n"

HexDigits == {"0", "1", "2", "3", "4", "5", "6", "7", "8", "9",
              "a", "b", "c", "d", "e", "f", "A", "B", "C", "D", "E", "F"}

TreePrefix == <<"t", "r", "e", "e", " ">>
ParentPrefix == <<"p", "a", "r", "e", "n", "t", " ">>
AuthorPrefix == <<"a", "u", "t", "h", "o", "r", " ">>
CommitterPrefix == <<"c", "o", "m", "m", "i", "t", "t", "e", "r", " ">>
EncodingPrefix == <<"e", "n", "c", "o", "d", "i", "n", "g", " ">>

remaining_buffer(p) == SubSeq(p.bytes, p.pos + 1, Len(p.bytes))

\* <[u8]>::starts_with
SliceStartsWith(slice, prefix) ==
    Len(prefix) <= Len(slice) /\ SubSeq(slice, 1, Len(prefix)) = prefix

\* Parser::consume_bytes: the position after it, the same when it returns false
consume_bytes(p, bytes) ==
    IF SliceStartsWith(remaining_buffer(p), bytes)
    THEN [ok |-> TRUE, pos |-> p.pos + Len(bytes)]
    ELSE [ok |-> FALSE, pos |-> p.pos]

\* Parser::consume_until: the range before the first ch, pos after ch
consume_until(p, ch) ==
    IF \E i \in (p.pos + 1)..Len(p.bytes) : p.bytes[i] = ch
    THEN With(Min({i \in (p.pos + 1)..Len(p.bytes) : p.bytes[i] = ch}) - 1, LAMBDA end :
            [some |-> TRUE, start |-> p.pos, end |-> end, pos |-> end + 1])
    ELSE [some |-> FALSE, start |-> p.pos, end |-> p.pos, pos |-> p.pos]

\* Parser::advance
advance(p, len) ==
    IF Len(p.bytes) - p.pos < len
    THEN [ok |-> FALSE, pos |-> p.pos]
    ELSE [ok |-> TRUE, pos |-> p.pos + len]

At(p, pos) == [bytes |-> p.bytes, pos |-> pos]

LineNone(p) == [tag |-> "None", start |-> 0, end |-> 0, pos |-> p.pos]
LineErr(p) == [tag |-> "Err", start |-> 0, end |-> 0, pos |-> p.pos]

\* Id::from_hex on the characters of the slice
from_hex_ok(slice) == \A i \in 1..Len(slice) : slice[i] \in HexDigits

\* Parser::parse_hex_id_line of commit.rs
parse_hex_id_line(p, prefix) ==
    With(consume_bytes(p, prefix), LAMBDA c :
        IF ~c.ok THEN LineNone(p)
        ELSE With(advance(At(p, c.pos), ID_HEX_LEN), LAMBDA a :
             IF ~a.ok \/ ~consume_bytes(At(p, a.pos), <<LF>>).ok
             THEN LineErr(p)
             ELSE IF ~from_hex_ok(SubSeq(p.bytes, c.pos + 1, c.pos + ID_HEX_LEN))
             THEN LineErr(p)
             ELSE [tag |-> "Some", start |-> c.pos, end |-> c.pos + ID_HEX_LEN,
                   pos |-> a.pos + 1]))

\* Parser::parse_line of commit.rs
parse_line(p, prefix) ==
    With(consume_bytes(p, prefix), LAMBDA c :
        IF ~c.ok THEN LineNone(p)
        ELSE With(consume_until(At(p, c.pos), LF), LAMBDA l :
             IF ~l.some THEN LineErr(p)
             ELSE [tag |-> "Some", start |-> c.pos, end |-> l.end, pos |-> l.pos]))

\* Signature::is_valid: the regex, which is not anchored, matches when the
\* line holds " <" and a ">" after it (each padding class and each (.*) can
\* be empty, and the part for timestamp and timezone is optional)
is_valid(input) ==
    \E i \in 1..Len(input) :
        /\ i + 1 <= Len(input)
        /\ input[i] = " "
        /\ input[i + 1] = "<"
        /\ \E j \in (i + 2)..Len(input) : input[j] = ">"

\* Parser::parse_signature of commit.rs
parse_signature(p, prefix) ==
    With(parse_line(p, prefix), LAMBDA line :
        IF line.tag # "Some" THEN line
        ELSE IF is_valid(SubSeq(p.bytes, line.start + 1, line.end))
        THEN line
        ELSE LineErr(p))

InvalidCommit == [tag |-> "Err", tree |-> 0, parents |-> <<>>,
                  author |-> <<0, 0>>, committer |-> <<0, 0>>,
                  encoding |-> <<>>, message |-> 0]

\* while !parser.consume_bytes(b"\n") { encoding line, or any line }
RECURSIVE headers_loop(_, _, _, _, _, _)
headers_loop(p, tree, parents, author, committer, encoding) ==
    With(consume_bytes(p, <<LF>>), LAMBDA nl :
        IF nl.ok
        THEN [tag |-> "Ok", tree |-> tree, parents |-> parents, author |-> author,
              committer |-> committer, encoding |-> encoding, message |-> nl.pos]
        ELSE With(parse_line(p, EncodingPrefix), LAMBDA e :
             CASE e.tag = "Err" -> InvalidCommit
               [] e.tag = "Some" ->
                    headers_loop(At(p, e.pos), tree, parents, author, committer,
                                 <<e.start, e.end>>)
               [] OTHER ->
                    With(consume_until(p, LF), LAMBDA l :
                        IF ~l.some THEN InvalidCommit
                        ELSE headers_loop(At(p, l.pos), tree, parents, author,
                                          committer, encoding))))

\* a variant that takes the author from the later line
ExtraAuthorTaken(author, extra) == extra

\* the body of the loop over further author lines is empty: the author stays
ExtraAuthor(author, extra) == author

\* while parser.parse_signature(b"author ")?.is_some() {}, then the committer
RECURSIVE authors_loop(_, _, _, _)
authors_loop(p, tree, parents, author) ==
    With(parse_signature(p, AuthorPrefix), LAMBDA a :
        CASE a.tag = "Err" -> InvalidCommit
          [] a.tag = "Some" ->
                authors_loop(At(p, a.pos), tree, parents,
                             ExtraAuthor(author, <<a.start, a.end>>))
          [] OTHER ->
                With(parse_signature(p, CommitterPrefix), LAMBDA c :
                    IF c.tag # "Some" THEN InvalidCommit
                    ELSE headers_loop(At(p, c.pos), tree, parents, author,
                                      <<c.start, c.end>>, <<>>)))

\* while let Some(parent) = parser.parse_hex_id_line(b"parent ")? { push },
\* then the first author line
RECURSIVE parents_loop(_, _, _)
parents_loop(p, tree, parents) ==
    With(parse_hex_id_line(p, ParentPrefix), LAMBDA par :
        CASE par.tag = "Err" -> InvalidCommit
          [] par.tag = "Some" ->
                parents_loop(At(p, par.pos), tree, Append(parents, par.start))
          [] OTHER ->
                With(parse_signature(p, AuthorPrefix), LAMBDA a :
                    IF a.tag # "Some" THEN InvalidCommit
                    ELSE authors_loop(At(p, a.pos), tree, parents, <<a.start, a.end>>)))

\* Commit::parse
Commit_parse(bytes) ==
    With(parse_hex_id_line([bytes |-> bytes, pos |-> 0], TreePrefix), LAMBDA t :
        IF t.tag # "Some" THEN InvalidCommit
        ELSE parents_loop([bytes |-> bytes, pos |-> t.pos], t.start, <<>>))

\* Commit::tree, Commit::parents, Commit::author and Commit::committer, as
\* the characters they are read from
HexAt(data, start) == SubSeq(data, start + 1, start + ID_HEX_LEN)
RangeOf(data, range) == SubSeq(data, range[1] + 1, range[2])

\* the texts: lines [kind, body, term], each written as the prefix of its
\* kind, its body and, when term holds, a line feed
Repeat(ch, n) == [i \in 1..n |-> ch]
PrefixOf(kind) ==
    CASE kind = "tree" -> TreePrefix
      [] kind = "parent" -> ParentPrefix
      [] kind = "author" -> AuthorPrefix
      [] kind = "committer" -> CommitterPrefix
      [] kind = "encoding" -> EncodingPrefix
      [] OTHER -> <<>>

Line(kind, body) == [kind |-> kind, body |-> body, term |-> TRUE]

RECURSIVE Render(_)
Render(lines) ==
    IF lines = <<>> THEN <<>>
    ELSE PrefixOf(lines[1].kind) \o lines[1].body
         \o (IF lines[1].term THEN <<LF>> ELSE <<>>) \o Render(Tail(lines))

SeqsUpTo(S, n) == UNION {SeqsOfLen(S, k) : k \in 0..n}

TreeLine == Line("tree", Repeat("a", ID_HEX_LEN))
ParentLines == {Line("parent", Repeat("b", ID_HEX_LEN)),
                Line("parent", Repeat("C", ID_HEX_LEN))}
AuthorLines == {Line("author", <<"A", " ", "<", "a", ">">>),
                Line("author", <<"B", " ", "<", "b", ">", " ", "1">>)}
CommitterLine == Line("committer", <<"C", " ", "<", "c", ">">>)
HeaderLines == {Line("encoding", <<"U">>), Line("other", <<"x", " ", "y">>)}
EmptyLine == Line("empty", <<>>)
MessageLine == Line("other", <<"m">>)

\* a line with a body that its kind does not allow
Spoilt(line) ==
    CASE line.kind \in {"tree", "parent"} ->
            [line EXCEPT !.body = Repeat("g", ID_HEX_LEN)]
      [] line.kind \in {"author", "committer"} ->
            [line EXCEPT !.body = <<"A">>]
      [] OTHER -> line

Without(lines, i) == SubSeq(lines, 1, i - 1) \o SubSeq(lines, i + 1, Len(lines))
Swapped(lines, i) ==
    [k \in 1..Len(lines) |->
        IF k = i THEN lines[i + 1] ELSE IF k = i + 1 THEN lines[i] ELSE lines[k]]

\* a well-formed commit, and the same with one line left out, two lines
\* exchanged, one line spoilt, or the text cut before a line's end
Damages(lines) ==
    {lines}
    \cup {Without(lines, i) : i \in 1..Len(lines)}
    \cup {Swapped(lines, i) : i \in 1..(Len(lines) - 1)}
    \cup {[lines EXCEPT ![i] = Spoilt(lines[i])] : i \in 1..Len(lines)}
    \cup {[k \in 1..i |-> IF k = i THEN [lines[k] EXCEPT !.term = FALSE] ELSE lines[k]] :
             i \in 1..Len(lines)}

InitCommit ==
    /\ \E ps \in SeqsUpTo(ParentLines, MaxLines),
          as \in SeqsUpTo(AuthorLines, MaxLines) \ {<<>>},
          hs \in SeqsUpTo(HeaderLines, MaxLines) :
          \E lines \in Damages(<<TreeLine>> \o ps \o as \o <<CommitterLine>> \o hs
                               \o <<EmptyLine, MessageLine>>) :
              fin = [op |-> "parse_commit", lines |-> lines]
    /\ fout = NoOut
    /\ buf = NewBuffer(<<>>)
    /\ PackIdle
    /\ StoreIdle
    /\ DbIdle

ParseCommitStep ==
    /\ fin.op = "parse_commit"
    /\ fout = NoOut
    /\ fout' = Commit_parse(Render(fin.lines))
    /\ UNCHANGED <<fin, buf, packVars, storeVars, dbVars>>

NextCommit == ParseCommitStep
SpecCommit == InitCommit /\ [][NextCommit]_vars

(***************************************************************************)
(* SpecParse: IndexFile::parse (packed/index.rs) on index files, and       *)
(* find_offset on the files it accepts.  A file is the index a pack writer *)
(* lays out, with `signature` telling whether the 8-byte header is there,  *)
(* `word` its version word, `words` the fan-out words present, and         *)
(* `remaining` the bytes after the fan-out table.                          *)
(***************************************************************************)
entry_len(version) == IF version = "V1" THEN ENTRY_LEN_V1 ELSE ENTRY_LEN_V2

ParseErr(e) == [tag |-> "Err", err |-> e, version |-> "", count |-> 0]

\* for _ in 0..LEVEL_ONE_COUNT { n = parse_u32()?; if n < count {..}; count = n }:
\* the loop ends at the first word that is missing or below the one before it
FanOutStops(file) ==
    {i \in 0..(LEVEL_ONE_COUNT - 1) :
        \/ i >= file.words
        \/ file.index.level_one[i] < (IF i = 0 THEN 0 ELSE file.index.level_one[i - 1])}

fan_out_loop(file) ==
    IF FanOutStops(file) = {}
    THEN [tag |-> "Ok", err |-> "", version |-> "",
          count |-> file.index.level_one[LEVEL_ONE_COUNT - 1]]
    ELSE IF Min(FanOutStops(file)) >= file.words
    THEN ParseErr("file is too short")
    ELSE ParseErr("the fan out is not monotonic")

min_size(version, count) ==
    IF version = "V2"
    THEN count * 8 + (count * entry_len(version) + TRAILER_LEN)
    ELSE count * entry_len(version) + TRAILER_LEN

\* count.saturating_sub(1)
saturating_sub(a, b) == IF a >= b THEN a - b ELSE 0

max_size(version, count) ==
    IF version = "V1"
    THEN min_size(version, count)
    ELSE min_size(version, count) + saturating_sub(count, 1) * 8

parse(file) ==
    IF file.signature /\ file.word # 2
    THEN ParseErr("UnknownVersion")
    ELSE
    With(IF file.signature THEN "V2" ELSE "V1", LAMBDA version :
    With(fan_out_loop(file), LAMBDA fan :
        IF fan.tag # "Ok" THEN fan
        ELSE IF \/ file.remaining < min_size(version, fan.count)
                \/ file.remaining > max_size(version, fan.count)
        THEN ParseErr("index length is an invalid length")
        ELSE [tag |-> "Ok", err |-> "", version |-> version, count |-> fan.count]))

\* the files: the index of a set of ids as its writer lays it out, with pad
\* bytes more (or, below 0, fewer) between the offset tables and the trailer
Pads == (0 - 1)..(LARGE_OFFSET_LEN * MaxEntries + 1)

Zeros(n) == [i \in 1..n |-> 0]

PaddedIndex(index, pad) ==
    [index EXCEPT !.large_len = @ + pad,
                  !.large_offsets = @ \o Zeros(IF pad > 0 THEN pad \div LARGE_OFFSET_LEN ELSE 0)]

BodyLen(index) ==
    Len(index.entries) * entry_len(index.version)
    + (IF index.version = "V2" THEN Len(index.entries) * 8 ELSE 0)
    + index.large_len + TRAILER_LEN

WrittenFile(index, pad) ==
    [signature |-> index.version = "V2", word |-> 2, words |-> LEVEL_ONE_COUNT,
     index |-> PaddedIndex(index, pad), remaining |-> BodyLen(index) + pad]

\* a file with a fan-out word raised above its successor, one cut inside the
\* fan-out table, and one with another version word
Damaged(file, damage) ==
    CASE damage = "fan_out" ->
            [file EXCEPT !.index.level_one[LEVEL_ONE_COUNT \div 2] = @ + 1]
      [] damage = "cut" ->
            [file EXCEPT !.words = LEVEL_ONE_COUNT - 1, !.remaining = 0]
      [] damage = "version" -> [file EXCEPT !.word = 3]
      [] OTHER -> file

\* the length of the file in bytes
FileLen(file) ==
    (IF file.signature THEN HEADER_LEN ELSE 0) + 4 * file.words + file.remaining

InitParse ==
    /\ \E v \in {"V1", "V2"} :
          \E s \in {x \in SUBSET Ids : Cardinality(x) <= MaxEntries} :
              \E file \in {WrittenFile(GenIndex(v, s), pad) : pad \in Pads}
                          \cup {Damaged(WrittenFile(GenIndex(v, s), 0), d) :
                                   d \in {"fan_out", "cut", "version"}} :
                  fin = [op |-> "parse", file |-> file, short_id |-> <<>>]
    /\ fout = NoOut
    /\ buf = NewBuffer(<<>>)
    /\ PackIdle
    /\ StoreIdle
    /\ DbIdle

ParseStep ==
    /\ fin.op = "parse"
    /\ fout = NoOut
    /\ fout' = parse(fin.file)
    /\ UNCHANGED <<fin, buf, packVars, storeVars, dbVars>>

\* find_offset on the IndexFile that parse returned
ParsedFindStep ==
    /\ fin.op = "parse"
    /\ fout # NoOut
    /\ fout.tag = "Ok"
    /\ \E sh \in ShortIds :
          /\ fin' = [op |-> "parsed_find", file |-> fin.file, short_id |-> sh]
          /\ fout' = find_offset(fin.file.index, sh)
    /\ UNCHANGED <<buf, packVars, storeVars, dbVars>>

NextParse == ParseStep \/ ParsedFindStep
SpecParse == InitParse /\ [][NextParse]_vars

(***************************************************************************)
(* SpecPack: NThreads threads call PackFile::read_object for the topmost   *)
(* object of a generated pack.  Every access to the cache happens while    *)
(* the thread holds the file mutex, so find_chain and each apply_delta is  *)
(* one step.                                                               *)
(***************************************************************************)
MkPack(desc) ==
    [desc |-> desc, file |-> PackBytes(desc),
     offset |-> EntryOffset(desc, Len(desc.deltas))]

InitPack ==
    /\ \E k \in {"Commit", "Blob"}, b \in DataSeqs(1, MaxDataLen), n \in 0..MaxDeltas :
          \E d \in SeqsOfLen([link : DeltaKinds, style : DeltaStyles], n) :
              pack = MkPack(PackDesc(k, b, d))
    /\ cache = <<>>
    /\ poisoned = FALSE
    /\ th = [t \in Threads |-> [IdleThread EXCEPT !.pc = "find"]]
    /\ PureIdle
    /\ StoreIdle
    /\ DbIdle

\* the thread is through: read_object returned Ok(ObjectReader::from_bytes(
\* header, base)) or an error, or the thread panicked
Returned(tag, header, base, by) ==
    [pc |-> "done", chain |-> <<>>, header |-> header, base |-> base, by |-> by,
     res |-> [tag |-> tag, kind |-> header.kind, len |-> header.len, bytes |-> base,
              by |-> by]]

Panicked == Returned("Panic", ObjectHeader("", 0), <<>>, 0)

\* `for entry in chain`: the next delta to apply, or the return
Applying(chain, header, base, by) ==
    IF chain = <<>> THEN Returned("Ok", header, base, by)
    ELSE [pc |-> "apply", chain |-> chain, header |-> header, base |-> base,
          by |-> by, res |-> NoOut]

FindChain(t) ==
    /\ th[t].pc = "find"
    /\ IF poisoned
       THEN /\ th' = [th EXCEPT ![t] = Panicked]
            /\ UNCHANGED cache
       ELSE \E r \in {find_chain(pack.file, PackIndex(pack.desc), cache, pack.offset)} :
                /\ cache' = r.cache
                /\ th' = [th EXCEPT ![t] =
                            IF r.tag = "Err"
                            THEN Returned("Err", ObjectHeader("", 0), <<>>, 0)
                            ELSE Applying(r.chain, r.header, r.base, r.by)]
    /\ UNCHANGED <<pack, poisoned, pureVars, storeVars, dbVars>>

ApplyDelta(t) ==
    /\ th[t].pc = "apply"
    /\ IF poisoned
       THEN /\ th' = [th EXCEPT ![t] = Panicked]
            /\ UNCHANGED <<cache, poisoned>>
       ELSE \E r \in {pack_apply_delta(pack.file, cache, th[t].base, Head(th[t].chain), t)} :
                /\ cache' = r.cache
                /\ poisoned' = (r.tag = "Panic")
                /\ th' = [th EXCEPT ![t] =
                            CASE r.tag = "Panic" -> Panicked
                              [] r.tag = "Err" ->
                                    Returned("Err", ObjectHeader("", 0), <<>>, 0)
                              [] OTHER ->
                                    Applying(Tail(th[t].chain), r.header, r.bytes, r.by)]
    /\ UNCHANGED <<pack, pureVars, storeVars, dbVars>>

NextPack == \E t \in Threads : FindChain(t) \/ ApplyDelta(t)

SpecPack == InitPack /\ [][NextPack]_vars

(***************************************************************************)
(* SpecCache: thread 1 calls PackFile::read_object again and again, each   *)
(* time for any of the entries of the pack, so that the cache it meets     *)
(* holds what the reads before it left.                                    *)
(***************************************************************************)
EntryOffsets(desc) == {EntryOffset(desc, i) : i \in 0..Len(desc.deltas)}

\* the call of read_object(index, offset) up to the return of find_chain
ReadAt(offset) ==
    /\ th[1].pc \in {"find", "done"}
    /\ ~poisoned
    /\ pack' = [pack EXCEPT !.offset = offset]
    /\ \E r \in {find_chain(pack.file, PackIndex(pack.desc), cache, offset)} :
          /\ cache' = r.cache
          /\ th' = [th EXCEPT ![1] =
                      IF r.tag = "Err"
                      THEN Returned("Err", ObjectHeader("", 0), <<>>, 0)
                      ELSE Applying(r.chain, r.header, r.base, r.by)]
    /\ UNCHANGED <<poisoned, pureVars, storeVars, dbVars>>

NextCache == (\E o \in EntryOffsets(pack.desc) : ReadAt(o)) \/ ApplyDelta(1)
SpecCache == InitPack /\ [][NextCache]_vars

\* PackFile::read_object run from find_chain to its return by one thread
\* alone: `for entry in chain { apply_delta }`
RECURSIVE apply_chain(_, _, _, _, _)
apply_chain(file, c, chain, header, base) ==
    IF chain = <<>>
    THEN [tag |-> "Ok", kind |-> header.kind, len |-> header.len, bytes |-> base]
    ELSE With(pack_apply_delta(file, c, base, Head(chain), 1), LAMBDA r :
            IF r.tag # "Ok"
            THEN [tag |-> r.tag, kind |-> "", len |-> 0, bytes |-> <<>>]
            ELSE apply_chain(file, r.cache, Tail(chain), r.header, r.bytes))

pack_read_object(file, index, c, offset) ==
    With(find_chain(file, index, c, offset), LAMBDA r :
        IF r.tag = "Err"
        THEN [tag |-> "Err", kind |-> "", len |-> 0, bytes |-> <<>>]
        ELSE apply_chain(file, r.cache, r.chain, r.header, r.base))

\* C8: whenever PackFile::read_object has returned Ok, the header it handed
\* to ObjectReader has one of the kinds Commit, Tree, Blob, Tag, and it is
\* the kind of the concrete object at the end of the chain, also when the
\* object read is stored as an OfsDelta or RefDelta.
C8_NoDeltaKindSurfaces ==
    \A t \in Threads :
        (th[t].pc = "done" /\ th[t].res.tag = "Ok") =>
            /\ th[t].res.kind \in ConcreteKinds
            /\ th[t].res.kind = pack.desc.kind

\* C7: once all threads that read the same packed object, whose chain has D
\* deltas, are through, every one of them has returned Ok, the cache holds
\* at most D + 1 entries, and all of them hold the same bytes.
C7_ConcurrentReadsAgree ==
    (\A t \in Threads : th[t].pc = "done") =>
        /\ \A t \in Threads : th[t].res.tag = "Ok"
        /\ Cardinality(DOMAIN cache) <= Len(pack.desc.deltas) + 1
        /\ \A t, u \in Threads : th[t].res.bytes = th[u].res.bytes

(***************************************************************************)
(* SpecDelta: apply_delta applied to every generated base and delta.       *)
(***************************************************************************)
InitDelta ==
    /\ \E k \in DeltaKinds, b \in DataSeqs(1, MaxDataLen) :
          \E c \in CmdLists(b) :
              fin = [op |-> "apply_delta", kind |-> k, base |-> b, cmds |-> c]
    /\ fout = NoOut
    /\ buf = NewBuffer(<<>>)
    /\ PackIdle
    /\ StoreIdle
    /\ DbIdle

ApplyDeltaStep ==
    /\ fin.op = "apply_delta"
    /\ fout = NoOut
    /\ fout' = apply_delta(fin.kind, fin.base, EncodeDelta(fin.base, fin.cmds))
    /\ UNCHANGED <<fin, buf, packVars, storeVars, dbVars>>

NextDelta == ApplyDeltaStep

SpecDelta == InitDelta /\ [][NextDelta]_vars

\* C10: once apply_delta has been applied to a base and a well-formed delta
\* over it, it has returned Ok with exactly the concatenation, in command
\* order, of the slices the commands name; in particular the delta "copy
\* base[0..|B|], insert the rest of R" yields B followed by the inserted bytes.
C10_ApplyDeltaConcat ==
    (fin.op = "apply_delta" /\ fout # NoOut) =>
        /\ fout.tag = "Ok"
        /\ fout.bytes = CmdsResult(fin.base, fin.cmds)


(***************************************************************************)
(* SpecIndex: find_offset applied to every generated index and short id.   *)
(***************************************************************************)
InitIndex ==
    /\ \E v \in {"V1", "V2"}, sh \in ShortIds :
          \E s \in {x \in SUBSET Ids : Cardinality(x) <= MaxEntries} :
              fin = [op |-> "find_offset", version |-> v, ids |-> s, short_id |-> sh]
    /\ fout = NoOut
    /\ buf = NewBuffer(<<>>)
    /\ PackIdle
    /\ StoreIdle
    /\ DbIdle

FindOffsetStep ==
    /\ fin.op = "find_offset"
    /\ fout = NoOut
    /\ fout' = find_offset(GenIndex(fin.version, fin.ids), fin.short_id)
    /\ UNCHANGED <<fin, buf, packVars, storeVars, dbVars>>

NextIndex == FindOffsetStep

SpecIndex == InitIndex /\ [][NextIndex]_vars

\* what the lookup has to return: decided by the set of entries that start
\* with the short id
Matches(ids, short_id) == {id \in ids : starts_with(id, short_id)}

ExpectedFind(version, ids, short_id) ==
    LET m == Matches(ids, short_id)
    IN  CASE Cardinality(m) = 0 -> FindErr("NotFound")
          [] Cardinality(m) = 1 ->
                LET id == CHOOSE x \in m : TRUE
                IN  FindOk(GenEntry(version, id).offset, id)
          [] OTHER -> FindErr("Ambiguous")

\* C9: on a sorted V1 or V2 index whose fan-out matches its entries,
\* find_offset(s) returns the (offset, id) of the only entry whose id starts
\* with s, Ambiguous when two or more do, NotFound when none does; for a
\* full-length s it returns the entry with exactly that id.
C9_FindOffsetCorrect ==
    (fin.op = "find_offset" /\ fout # NoOut) =>
        /\ fout = ExpectedFind(fin.version, fin.ids, fin.short_id)
        /\ (Len(fin.short_id) = IdLen /\ fin.short_id \in fin.ids) =>
                (fout.tag = "Ok" /\ fout.id = fin.short_id)

\* a V2 lookup of a proper prefix that lands in the second fan-out bucket and
\* reads its offset from the 64-bit table, next to an ambiguous neighbour
C9_Witness ==
    /\ fin.op = "find_offset"
    /\ fin.version = "V2"
    /\ Len(fin.short_id) < IdLen
    /\ first_byte(fin.short_id) = 1
    /\ Cardinality(fin.ids) = MaxEntries
    /\ \E id \in fin.ids : id[1] = 0
    /\ fout.tag = "Ok"
    /\ GenEntry("V2", fout.id).large

\* C1: no partially written file is seen: once write_object(B) has returned
\* Ok(id) to any thread, the file at the path of id holds the complete zlib
\* stream of B, and a read_object that found the file inflates it to its end.
C1_NoPartialFileSeen ==
    /\ \A w \in written :
          /\ FileExists(files, LoosePath(w.id))
          /\ FileAt(files, LoosePath(w.id)).content = Deflate(w.bytes)
    /\ \A t \in Threads :
          (lt[t].pc = "idle" /\ lt[t].op = "read" /\ lt[t].res.tag = "Err") =>
              lt[t].res.err = "NotFound"

C2_ReadAfterWrite ==
    \A w \in written :
        (lt[1].pc = "idle" /\ lt[1].op = "db_read" /\ lt[1].id = w.id) =>
            lt[1].res.tag = "Ok"

\* C4: when the facade read_object(id) returns while no loaded pack holds id
\* and the loose file of id exists, it returns the reader of the loose object.
C4_LooseHitNotShadowed ==
    (/\ lt[1].pc = "idle"
     /\ lt[1].op = "db_read"
     /\ \A p \in packs : lt[1].id \notin PackIds[p]
     /\ FileExists(files, LoosePath(lt[1].id))) =>
        lt[1].res = DbOk("loose", lt[1].id)

\* C5: try_read_object returns Ambiguous whenever the index of a loaded pack
\* answers Ambiguous for the short id, or two loaded packs resolve it to
\* different ids, whatever the order of iteration.
C5_AmbiguousAggregated ==
    (/\ fin.op = "try_read_object"
     /\ fout # NoOut
     /\ \/ \E p \in GoodNames : PackFind(fin.ids, p, fin.short_id).tag = "Ambiguous"
        \/ \E p, q \in GoodNames :
              /\ PackFind(fin.ids, p, fin.short_id).tag = "Ok"
              /\ PackFind(fin.ids, q, fin.short_id).tag = "Ok"
              /\ PackFind(fin.ids, p, fin.short_id).id # PackFind(fin.ids, q, fin.short_id).id) =>
        fout = DbErr("Ambiguous")

\* C6: once a well-formed pack holding X has been in objects/pack for
\* MAX_REFRESH_INTERVAL and one read_object(X) begun since it was added has
\* failed, no later read_object(X) fails.
C6_RefreshVisibility ==
    \A a \in added : \A m1, m2 \in missed :
        ~(/\ a.name \in GoodNames
          /\ m1.id \in PackIds[a.name]
          /\ m2.id = m1.id
          /\ m1.n < m2.n
          /\ m1.began >= a.at
          /\ m2.began >= a.at + MAX_REFRESH_INTERVAL)

\* C11: read_to_end(n) returns Ok exactly when n bytes remained after pos,
\* buffered or not, and fails with InvalidLength (LengthMismatch) otherwise,
\* after whatever calls came before it.
C11_ReadToEndExact ==
    (fin.op = "read_to_end") =>
        IF fin.remaining = fin.size
        THEN buf.res.tag = "Ok"
        ELSE buf.res = [tag |-> "Err", err |-> "InvalidLength"]

\* C12: parse_object_header returns Ok exactly on '<kind> <decimal length>\0..'
\* with a known kind and a length that fits, then with that kind, that length
\* and the position just after the NUL; a length that does not fit fails with
\* LengthTooBig.
C12_HeaderExact ==
    (fin.op = "parse_object_header" /\ fout # NoOut) =>
        IF WellFormedEnd(fin.bytes) = 0
        THEN fout.tag = "Err"
        ELSE IF ~FitsUsize(StripZeros(HeaderDigitsOf(fin.bytes)))
        THEN fout = HeaderErr2("LengthTooBig")
        ELSE fout = [tag |-> "Ok", kind |-> KindOfWord(HeaderWordOf(fin.bytes)),
                     len |-> StripZeros(HeaderDigitsOf(fin.bytes)),
                     pos |-> WellFormedEnd(fin.bytes)]

\* C13: the step of write_object that finds the file of its object returns
\* Ok with the id of the bytes, leaves the content of the file as it was, and
\* leaves its modification time at the present time, or as it was when the
\* update failed.
C13_ExistingFileKept ==
    [][ (/\ lt[1].pc = "open"
         /\ lt'[1].pc # "open"
         /\ FileExists(files, LoosePath(lt[1].id))) =>
            /\ lt'[1].pc = "idle"
            /\ lt'[1].res = WriteOk(from_hash(lt[1].bytes), TRUE)
            /\ FileExists(files', LoosePath(lt[1].id))
            /\ FileAt(files', LoosePath(lt[1].id)).content
                  = FileAt(files, LoosePath(lt[1].id)).content
            /\ FileAt(files', LoosePath(lt[1].id)).mtime
                  \in {FileAt(files, LoosePath(lt[1].id)).mtime, now}
            /\ {f \in files' : f.path # LoosePath(lt[1].id)}
                  = {f \in files : f.path # LoosePath(lt[1].id)} ]_vars

\* a write_object of a non-empty buffer has returned through the
\* already-exists branch and the file, complete, bears a later time than 0
C13_Witness ==
    /\ lt[1].pc = "idle"
    /\ lt[1].op = "write"
    /\ lt[1].res.tag = "Ok"
    /\ lt[1].res.existed
    /\ lt[1].bytes # <<>>
    /\ FileAt(files, LoosePath(lt[1].id)).content = Deflate(lt[1].bytes)
    /\ FileAt(files, LoosePath(lt[1].id)).mtime > 0

\* C14: PackFile::read_object applies the collected chain in reverse of the
\* order of collection, the delta nearest the base first: once the read of
\* an object stacked on D >= 2 deltas is through, it has returned
\* d_1(d_2(...d_D(base))), the body the pack was generated from.  The deltas
\* looked at carry no commands, so that only the order of application, and
\* not the decoding of a command, decides the outcome.
C14_ChainAppliedBaseFirst ==
    \A t \in Threads :
        (/\ th[t].pc = "done"
         /\ Len(pack.desc.deltas) >= 2
         /\ \A i \in DOMAIN pack.desc.deltas : pack.desc.deltas[i].style = "empty") =>
            /\ th[t].res.tag = "Ok"
            /\ th[t].res.bytes = TrueBody(pack.desc, Len(pack.desc.deltas))

\* C15: the walk of the delta chain always terminates: whatever the base
\* references of the pack, cycles of any length included, find_chain
\* eventually returns (an error, for a cycle) and gives up the file mutex.
C15_WalkTerminates == <>(th[1].pc = "done")

\* C16: read_command classifies the command byte by its top bit: a byte of
\* 0x80..0xff is a copy from the base (or, when the stream ends inside its
\* arguments, a parse error), a byte of 0x01..0x7f is an insert of exactly
\* that many inline bytes, and 0 fails with UnsupportedCommand.
C16_CommandByTopBit ==
    (fin.op = "read_command" /\ fout # NoOut) =>
        CASE fin.cmd >= 128 ->
                \/ fout.tag = "CopyFromBase"
                \/ Len(fin.stream) = 1 /\ fout.tag = "Err"
                                       /\ fout.err = "Parse(InvalidLength)"
          [] fin.cmd = 0 -> fout.tag = "Err" /\ fout.err = "UnsupportedCommand"
          [] OTHER -> fout.tag = "CopyFromDelta" /\ fout.len = fin.cmd

\* C17: read_delta_offset decodes the biased big-endian varint: the value it
\* returns for the bytes b0 b1 ... is val, where val = b0 & 0x7f after the
\* first byte and val = ((val + 1) << 7) | (b & 0x7f) after each further
\* byte (looked at for the encodings of up to four bytes).
C17_BiasedOffset ==
    (fin.op = "read_delta_offset" /\ fout # NoOut /\ Len(fin.bytes) <= 4) =>
        /\ fout.tag = "Ok"
        /\ U64ToNat(fout.bits) = BiasedBE(Tail(fin.bytes), fin.bytes[1] % 128)

\* C18: neither pack varint decoder returns a truncated value: whenever
\* read_pack_object_header or read_delta_offset has returned Ok, the 64 bits
\* it returned are the payload bits of the encoding, and the encoding has no
\* payload bit set from bit 64 on (an encoding that has one is an error).
C18_NoSilentTruncation ==
    (fin.op \in {"read_pack_object_header", "read_delta_offset"}
        /\ fout # NoOut /\ fout.tag = "Ok") =>
        /\ \A j \in 0..(PayloadBits(fin.op, fin.bytes) - 1) :
              IF j < U64Bits
              THEN BitOfU64(fout.bits, j) = PayloadBit(fin.op, fin.bytes, j)
              ELSE PayloadBit(fin.op, fin.bytes, j) = 0
        /\ \A j \in PayloadBits(fin.op, fin.bytes)..(U64Bits - 1) :
              BitOfU64(fout.bits, j) = 0

\* C19: refresh is rate-limited.  In every step in which the facade's read
\* of the packed database finds the id in no loaded pack and so calls
\* refresh: if a refresh has succeeded and less than two seconds have gone
\* by since it finished, the pack set and last_refresh stay as they were and
\* the read answers not found without a second lookup; otherwise the
\* directory is scanned: if it can be read and every index in it opens,
\* every index in it is loaded and last_refresh becomes the time of the scan.
C19_RefreshRateLimited ==
    [][ ((\/ lt[1].pc = "idle" /\ nops' = nops + 1 /\ lt'[1].op = "db_read"
          \/ lt[1].pc = "db_packed" /\ lt'[1].pc = "idle")
         /\ try_read_object(PackIds, packs, lt'[1].id) = {DbErr("ObjectNotFound")}) =>
            IF last_refresh # NoTime /\ now - last_refresh < MAX_REFRESH_INTERVAL
            THEN /\ packs' = packs
                 /\ last_refresh' = last_refresh
                 /\ \/ lt'[1].pc = "db_loose"
                    \/ lt'[1].res = DbErr("NotFound")
            ELSE (packdir.exists /\ \A n \in packdir.entries : IsIdx(n) => Opens(n)) =>
                    /\ packs' = packs \cup {n \in packdir.entries : IsIdx(n)}
                    /\ last_refresh' = now ]_vars

\* a read that began after pack a.idx was added has missed, and a.idx is
\* still not loaded although every index of the directory opens: the refresh
\* of that read was inside the interval
C19_Witness ==
    /\ last_refresh # NoTime
    /\ "a.idx" \in packdir.entries \ packs
    /\ "bad.idx" \notin packdir.entries
    /\ \E m \in missed : \E a \in added : a.name = "a.idx" /\ a.at <= m.began

\* C20: the pack set only grows, and only under the refresh gate: in every
\* step no loaded pack goes away, a step that changes the pack set is a step
\* of the one thread that holds the last_refresh mutex and is scanning, and
\* it inserts one index path of the directory that was not loaded; at most
\* one thread holds the mutex, before and after the step.
C20_PacksGrowUnderGate ==
    [][ /\ packs \subseteq packs'
        /\ Cardinality({t \in Threads : lt[t].pc \in RefreshPcs}) <= 1
        /\ Cardinality({t \in Threads : lt'[t].pc \in RefreshPcs}) <= 1
        /\ packs' # packs =>
              \E t \in Threads :
                  /\ lt[t].pc = "rf_scan"
                  /\ \A u \in Threads \ {t} : lt'[u] = lt[u]
                  /\ \E n \in packdir.entries \ packs :
                        IsIdx(n) /\ packs' = packs \cup {n} ]_vars

\* the first call of refresh is scanning and has inserted a pack: no call
\* was made before it, and the pack set is not empty
C20_Witness ==
    \E t \in Threads :
        /\ lt[t].pc = "rf_scan"
        /\ nops = 1
        /\ lt[t].seen \cap packs # {}

\* C21: the pack cache is insert-only and the first insertion wins: no step
\* takes a key out of the cache or puts another value at a key the cache
\* holds already, so that the entry two racing threads leave at the offset
\* of a delta is the one inserted first.
C21_FirstInsertionStays ==
    [][ \A o \in DOMAIN cache : o \in DOMAIN cache' /\ cache'[o] = cache[o] ]_vars

\* C22: one read_object holds the file mutex from the start of the chain
\* walk to the end of the last delta application: while a thread is between
\* its find_chain and the last of its apply_delta calls, no other thread
\* takes a step that seeks or reads in the pack file.
C22_MutexHeldThroughRead ==
    [][ \A t \in Threads :
            th[t].pc = "apply" => \A u \in Threads \ {t} : th'[u] = th[u] ]_vars


\* C23: a call of read_until_byte(0, max) at position p, over the bytes the
\* buffer holds past p followed by those the reader has yet to give: when a
\* NUL is among the first max of them, the call returns the range from p to
\* just after the first NUL and pos is its end; when there are max bytes and
\* no NUL among them, it returns no range and pos is p again; when the stream
\* ends before max bytes and holds no NUL, it fails with UnexpectedEof.  In
\* every case pos does not pass p + max, the buffer does not grow past
\* p + max, and no byte of the stream is lost or reordered, however the
\* reader splits its reads.
Ahead(b) == SubSeq(b.buffer, b.pos + 1, Len(b.buffer)) \o b.rest
FirstNul(bytes, max) ==
    IF \E i \in 1..Min({max, Len(bytes)}) : bytes[i] = NUL
    THEN Min({i \in 1..Min({max, Len(bytes)}) : bytes[i] = NUL})
    ELSE 0
Quiet(b) == [b EXCEPT !.intr = 0, !.io = FALSE]
QuietCall(b, op, size) ==
    IF op = "read_exact" THEN read_exact(Quiet(b), size)
    ELSE IF op = "read_until_byte" THEN read_until_byte(Quiet(b), NUL, size)
    ELSE read_to_end(Quiet(b), size)
C24_EintrTransparent ==
    [][ fin'.op \in {"read_exact", "read_until_byte", "read_to_end"} =>
          IF buf'.res = [tag |-> "Err", err |-> "Io"]
          THEN buf'.buffer \o buf'.rest = buf.buffer \o buf.rest
          ELSE Quiet(buf') \in QuietCall(buf, fin'.op, fin'.size) ]_vars
\* a read_to_end that met every Interrupted error of its reader, read more
\* than one byte and returned them
C24_Witness ==
    /\ fin.op = "read_to_end"
    /\ fin.intr = MaxIntr
    /\ buf.intr = 0
    /\ buf.res.tag = "Ok"
    /\ Len(buf.res.bytes) > 1


\* C25: an index file that parse has accepted has a fan-out table that never
\* decreases and a length that fits its version and count: 1024 + 24*count
\* + 40 bytes for V1, and 8 + 1024 + 24*count + 4*count + 8*K + 40 bytes
\* for V2 with K a whole number of 64-bit offsets from 0 to count.
FanOutMonotonic(file) ==
    \A b \in 1..(LEVEL_ONE_COUNT - 1) :
        file.index.level_one[b - 1] <= file.index.level_one[b]
ValidLen(version, count, len) ==
    IF version = "V1"
    THEN len = LEVEL_ONE_LEN + ENTRY_LEN_V1 * count + TRAILER_LEN
    ELSE \E K \in 0..count :
            len = HEADER_LEN + LEVEL_ONE_LEN + 24 * count + 4 * count
                  + LARGE_OFFSET_LEN * K + TRAILER_LEN
C25_ParseAcceptsValid ==
    (fin.op = "parse" /\ fout # NoOut /\ fout.tag = "Ok") =>
        /\ FanOutMonotonic(fin.file)
        /\ fout.count = fin.file.index.level_one[LEVEL_ONE_COUNT - 1]
        /\ ValidLen(fout.version, fout.count, FileLen(fin.file))

\* C28: find_offset on an index file that parse accepted does not panic: it
\* returns an offset and id, NotFound, Ambiguous or a malformed-index error.
C28_FindOffsetNoPanic ==
    fin.op = "parsed_find" =>
        fout.tag \in {"Ok", "NotFound", "Ambiguous", "ReadIndexFile"}


\* C26: Commit::parse returns Ok exactly on the texts whose lines are, in
\* this order, a tree line, any number of parent lines, one or more author
\* lines, a committer line, any number of further header lines and an empty
\* line; the commit then has the tree of the tree line, the parents of the
\* parent lines in their order, the author of the first author line and the
\* committer of the committer line.  A text without the tree line, without
\* an author line, without the committer line or without the empty line is
\* rejected.
Whole(line) ==
    /\ line.term
    /\ line.kind \in {"tree", "parent"} =>
          (Len(line.body) = ID_HEX_LEN /\ \A i \in 1..Len(line.body) : line.body[i] \in HexDigits)
    /\ line.kind \in {"author", "committer"} =>
          \E i \in 1..(Len(line.body) - 2) :
              line.body[i] = " " /\ line.body[i + 1] = "<"
              /\ \E j \in (i + 2)..Len(line.body) : line.body[j] = ">"
\* the shape: np parent lines, na author lines, the empty line at place e
Shaped(lines, np, na, e) ==
    /\ na >= 1
    /\ 1 + np + na + 1 < e
    /\ e <= Len(lines)
    /\ lines[1].kind = "tree"
    /\ \A i \in 2..(1 + np) : lines[i].kind = "parent"
    /\ \A i \in (2 + np)..(1 + np + na) : lines[i].kind = "author"
    /\ lines[2 + np + na].kind = "committer"
    /\ \A i \in (3 + np + na)..(e - 1) : lines[i].kind # "empty"
    /\ lines[e].kind = "empty"
    /\ \A i \in 1..e : Whole(lines[i])
C26_CommitGrammar ==
    (fin.op = "parse_commit" /\ fout # NoOut) =>
        /\ fout.tag = "Ok" <=>
              \E np \in 0..Len(fin.lines), na \in 1..Len(fin.lines), e \in 1..Len(fin.lines) :
                  Shaped(fin.lines, np, na, e)
        /\ \A np \in 0..Len(fin.lines), na \in 1..Len(fin.lines), e \in 1..Len(fin.lines) :
              (fout.tag = "Ok" /\ Shaped(fin.lines, np, na, e)) =>
                  /\ HexAt(Render(fin.lines), fout.tree) = fin.lines[1].body
                  /\ Len(fout.parents) = np
                  /\ \A i \in 1..np :
                        HexAt(Render(fin.lines), fout.parents[i]) = fin.lines[1 + i].body
                  /\ RangeOf(Render(fin.lines), fout.author) = fin.lines[2 + np].body
                  /\ RangeOf(Render(fin.lines), fout.committer) = fin.lines[2 + np + na].body
                  /\ SubSeq(Render(fin.lines), fout.message + 1, Len(Render(fin.lines)))
                        = Render(SubSeq(fin.lines, e + 1, Len(fin.lines)))
\* a commit with two parents and two different author lines was accepted
C26_Witness ==
    /\ fin.op = "parse_commit"
    /\ fout # NoOut
    /\ fout.tag = "Ok"
    /\ Len(fout.parents) = 2
    /\ HexAt(Render(fin.lines), fout.parents[1]) # HexAt(Render(fin.lines), fout.parents[2])
    /\ fin.lines[4].kind = "author"
    /\ fin.lines[5].kind = "author"
    /\ fin.lines[4].body # fin.lines[5].body


\* C27: the pack cache is transparent.  Whatever reads came before it, a
\* read_object(offset) that has returned has returned what the same call
\* returns on the same pack file with an empty cache, and every entry of the
\* cache at the offset of an object holds the kind and the whole body of
\* that object.
Outcome(res) == [tag |-> res.tag, kind |-> res.kind, len |-> res.len, bytes |-> res.bytes]
EntryAt(desc, o) == CHOOSE i \in 0..Len(desc.deltas) : EntryOffset(desc, i) = o
C27_CacheTransparent ==
    /\ th[1].pc = "done" =>
          Outcome(th[1].res)
             = pack_read_object(pack.file, PackIndex(pack.desc), <<>>, pack.offset)
    /\ \A o \in DOMAIN cache :
          /\ o \in EntryOffsets(pack.desc)
          /\ cache[o].header.kind = pack.desc.kind
          /\ cache[o].bytes = TrueBody(pack.desc, EntryAt(pack.desc, o))


\* C29: a failed write leaves the store as it was.  Whenever the caller is
\* not in the middle of a write, every file of the store holds the complete
\* zlib stream of a buffer and lies at the path of that buffer's id, and
\* every write_object(B) that returned Ok(id) left the complete stream of B
\* at the path of id.
C29_FailedWriteLeavesNoFile ==
    lt[1].pc # "write" =>
        /\ \A f \in files :
              \E bytes \in LooseBufs :
                  /\ f.path = LoosePath(from_hash(bytes))
                  /\ f.content = Deflate(bytes)
        /\ \A w \in written :
              /\ FileExists(files, LoosePath(w.id))
              /\ FileAt(files, LoosePath(w.id)).content = Deflate(w.bytes)


\* C30: concurrent readers and refreshers never deadlock.  No thread waits
\* for the last_refresh mutex, or holds it, while its iterator over the pack
\* set is alive; a thread takes the file mutex of a pack only under the read
\* guard of the pack set and the entry of the cache only under the file
\* mutex; and, every chain walk being finite, all threads that run
\* read_object on the database reach the end of their call.
LockOrdered ==
    \A t \in Threads :
        /\ (lt[t].pc = "lk_miss" \/ GateHeld(lt[t].pc)) => ~IterAlive(lt[t].pc)
        /\ ShardWritten(lt[t].pc) => GateHeld(lt[t].pc)
        /\ FileHeld(lt[t].pc) => (IterAlive(lt[t].pc) /\ ~GateHeld(lt[t].pc))
        /\ CacheHeld(lt[t].pc) => FileHeld(lt[t].pc)
C30_NoDeadlock ==
    /\ []LockOrdered
    /\ <>(\A t \in Threads : lt[t].pc = "done")
\* one thread holds the last_refresh mutex and has yet to take the write
\* guard of the pack set, while another holds the read guard of the pack
\* set and the file mutex of a pack
C30_Witness ==
    \E t, u \in Threads :
        /\ lt[t].pc = "rf_scan"
        /\ \E n \in packdir.entries \ lt[t].seen : IsIdx(n)
        /\ lt[u].pc = "lk_entry"

====
